---------------------------- MODULE Spec2Model ----------------------------
(***************************************************************************)
(* ExScroller Game SDK (src/src/sdk.js): the PGP frame codec, the line     *)
(* compressor, the branching-command builders, the Game compiler with its  *)
(* label validation and dynamic sections, and Game.start over the Printer. *)
(***************************************************************************)
EXTENDS Integers, Sequences, FiniteSets, TLC

VARIABLES
  call,      \* PGP level: the static method called and its arguments
  ret,       \* PGP level: what the call returned (NoRet before the call)
  sections,  \* Game.sections: the section table, in insertion order
  flow,      \* Game._flow
  sprites,   \* Game.sprites, in insertion order
  vars,      \* Game.vars, shared with every LineContext
  pc,        \* where the caller of compile() / start() is
  caller,    \* "compile": compile() called directly; "start": through start()
  hasBranching, \* compile(): const hasBranching
  frames,    \* compile(): const frames
  flowIdx,   \* compile(): position of the loop over this._flow (1-based)
  compiled,  \* compile(): const compiled (ids already emitted)
  restIdx,   \* compile(): position of the loop over this.sections (1-based)
  dynFrom,   \* which loop called _compileSectionFrames for the dynamic section
  lctx,      \* _runDynamic(): const lctx
  scanlines, \* _runDynamic(): const scanlines
  dynI,      \* _runDynamic(): the loop variable i
  out,       \* the byte stream compile() returned (NoRet: none)
  errors,    \* the errors of the CompileError compile() threw (none: << >>)
  connected, \* Printer.connected
  running,   \* Game._running
  written,   \* the chunks handed to the serial writer, in order
  sendPos,   \* sendChunked(): the loop variable i (offset of the next chunk)
  emitted,   \* history: ids of the sections _compileSectionFrames was called on
  genCalls,  \* history: number of calls of section callbacks by _runDynamic
  _writer,   \* Printer._writer: 0 for null, else the number of its connection
  conns,     \* number of connections the Printer has opened so far
  senders,   \* the calls of Printer.send / sendChunked, each with its locals
  inflight,  \* writes handed to a writer whose promise has not settled, oldest first
  wire,      \* history: every write handed to a writer, in order
  prevOut,   \* the stream an earlier compile() of the same Game returned
  _port,     \* Printer._port: 0 for null, 1 for the SerialPort
  portState, \* the SerialPort: "closed", "opening" or "open"
  _readerRunning, \* Printer._readerRunning
  loops,     \* the read loops of _startReader awaiting reader.read(), each the
             \* number of the connection whose reader it holds
  cpc,       \* where Printer.connect() is: "none", "opening", "rejected"
  dpc,       \* where Printer.disconnect() is: "none", "closing", "done"
  received,  \* number of chunks the read loops were handed
  printer,   \* printer.js: let printer (0 for null, else the number of the Printer)
  connectedFlag, \* printer.js: let connected
  printers,  \* number of Printer objects printer.js has created
  writerOf,  \* for each of them: whether its _writer is set
  ctask,     \* the Printer whose connect() printer.js awaits (0: none)
  dtask,     \* the Printer whose disconnect() printer.js awaits (0: none)
  lastPrint  \* how the latest printModel / testPrint call went

pgpVars  == << call, ret >>
gameVars == << sections, flow, sprites, vars, pc, caller, hasBranching, frames,
               flowIdx, compiled, restIdx, dynFrom, lctx, scanlines, dynI, out,
               errors, connected, running, written, sendPos, emitted, genCalls >>
xferVars == << _writer, conns, senders, inflight, wire >>
readVars == << _port, portState, _readerRunning, loops, cpc, dpc, received >>
appVars  == << printer, connectedFlag, printers, writerOf, ctask, dtask, lastPrint >>
restVars == << readVars, appVars >>
extVars  == << restVars, prevOut >>
allVars  == << pgpVars, gameVars, xferVars, extVars >>

\* no value returned yet / JavaScript null where a byte sequence is expected;
\* neither is a sequence of bytes
NoRet == << -1 >>
Null  == << -2 >>

(***************************************************************************)
(* Integer helpers: JavaScript's bit operators on non-negative integers.   *)
(***************************************************************************)
RECURSIVE BitXor(_, _)
BitXor(a, b) ==
  IF a = 0 THEN b
  ELSE IF b = 0 THEN a
  ELSE (((a % 2) + (b % 2)) % 2) + 2 * BitXor(a \div 2, b \div 2)

\* v & 0xFF
Lo8(v) == v % 256
\* (v >> 8) & 0xFF
Hi8(v) == (v \div 256) % 256

(***************************************************************************)
(* Program constants.                                                      *)
(***************************************************************************)
BPL  == 72
SYNC == 224
RLE_THRESHOLD == 64
BTN_ANY == 63

CMD == [ RAW_LINE |-> 1, RAW_LINES |-> 2, RAW_LINE_RLE |-> 3, FILL_LINE |-> 4,
         TEXT |-> 5, RECT |-> 6, SPRITE_DEF |-> 11, SPRITE_DRAW |-> 12,
         FEED |-> 32, SET_SPEED |-> 34, STOP |-> 35, SET_HEAT |-> 36,
         SET_MODE |-> 37, POLL_INPUT |-> 48, WAIT_BUTTON |-> 49, SYNC |-> 65,
         PROGRAM_START |-> 80, PROGRAM_END |-> 81,
         LABEL |-> 96, JUMP |-> 97, JUMP_IF_BTN |-> 98, RANDOM_JUMP |-> 100,
         SET_VAR |-> 101, JUMP_IF_VAR |-> 102, JUMP_IF_FADER |-> 103,
         WAIT_FADER |-> 104, SET_FEED_MODE |-> 105 ]

(***************************************************************************)
(* PGP.crc8: crc ^= b, then eight times shift left, XOR 0x07 in when bit 7 *)
(* was set; the mask to eight bits is applied after the eight shifts only. *)
(***************************************************************************)
\* variant: bit 7 is tested after the shift instead of before it
RECURSIVE crc8ShiftTestAfter(_, _)
crc8ShiftTestAfter(crc, n) ==
  IF n = 0 THEN crc
  ELSE crc8ShiftTestAfter(IF ((crc * 2) \div 128) % 2 = 1
                          THEN BitXor(crc * 2, 7) ELSE crc * 2,
                          n - 1)

RECURSIVE crc8Shift(_, _)
crc8Shift(crc, n) ==
  IF n = 0 THEN crc
  ELSE crc8Shift(IF (crc \div 128) % 2 = 1 THEN BitXor(crc * 2, 7) ELSE crc * 2,
                 n - 1)

\* the loop "for (const b of data)" over data[lo..hi], in order, starting from
\* crc; the range is split in halves to keep the evaluation shallow
RECURSIVE crc8Range(_, _, _, _)
crc8Range(data, lo, hi, crc) ==
  IF lo > hi THEN crc
  ELSE IF lo = hi THEN crc8Shift(BitXor(crc, data[lo]), 8) % 256
  ELSE LET mid  == (lo + hi) \div 2
           left == crc8Range(data, lo, mid, crc)
       IN  CASE left \in 0..255 -> crc8Range(data, mid + 1, hi, left)

crc8(data) == crc8Range(data, 1, Len(data), 0)

(***************************************************************************)
(* PGP.frame: [SYNC][cmd][len & 0xFF][(len >> 8) & 0xFF][payload][crc8].   *)
(* The buffer is a Uint8Array: every element stored is taken modulo 256.   *)
(***************************************************************************)
frameHeader(cmd, len) == << Lo8(cmd), Lo8(len), Hi8(len) >>

frame(cmd, payload) ==
  LET body == frameHeader(cmd, Len(payload)) \o payload
  IN  <<SYNC>> \o body \o << crc8(body) >>

U8Array(s) == [ i \in 1..Len(s) |-> s[i] % 256 ]

(***************************************************************************)
(* Line compressor.                                                        *)
(***************************************************************************)
PGP_rawLine(data) == frame(CMD.RAW_LINE, U8Array(data))

\* variant: the run is compared against the byte before the one at i + count
RECURSIVE rleRunOffByOne(_, _, _)
rleRunOffByOne(arr, i, count) ==
  IF i + count < Len(arr) /\ arr[i + count] = arr[i + 1] /\ count < 255
  THEN rleRunOffByOne(arr, i, count + 1)
  ELSE count

\* the inner while loop: extend the run starting at 0-based index i
RECURSIVE rleRun(_, _, _)
rleRun(arr, i, count) ==
  IF i + count < Len(arr) /\ arr[i + count + 1] = arr[i + 1] /\ count < 255
  THEN rleRun(arr, i, count + 1)
  ELSE count

\* the outer while loop, from 0-based index i
RECURSIVE rleFrom(_, _)
rleFrom(arr, i) ==
  IF i < Len(arr)
  THEN LET count == rleRun(arr, i, 1)
       IN  << count, arr[i + 1] >> \o rleFrom(arr, i + count)
  ELSE << >>

PGP_rleEncode(data) ==
  LET arr == U8Array(data)
  IN  IF Len(arr) # 72 THEN Null ELSE rleFrom(arr, 0)

\* variant: the run-length form is also used when it is exactly 64 bytes
PGP_rawLineRleAtMost(data) ==
  LET rle == PGP_rleEncode(data)
  IN  IF rle # Null /\ Len(rle) <= RLE_THRESHOLD
      THEN frame(CMD.RAW_LINE_RLE, rle)
      ELSE PGP_rawLine(data)

PGP_rawLineRle(data) ==
  LET rle == PGP_rleEncode(data)
  IN  IF rle # Null /\ Len(rle) < RLE_THRESHOLD
      THEN frame(CMD.RAW_LINE_RLE, rle)
      ELSE PGP_rawLine(data)

(***************************************************************************)
(* General commands: 16-bit fields written low byte first.                 *)
(***************************************************************************)
PGP_setSpeed(pps) == frame(CMD.SET_SPEED, << Lo8(pps), Hi8(pps) >>)
PGP_setHeat(us)   == frame(CMD.SET_HEAT, << Lo8(us), Hi8(us) >>)
PGP_fillLine(pattern, count) ==
  frame(CMD.FILL_LINE, << Lo8(pattern), Lo8(count), Hi8(count) >>)
\* str is the UTF-8 encoding of the string, as TextEncoder returns it
PGP_text(x, y, font, str) ==
  frame(CMD.TEXT,
        << Lo8(x), Hi8(x), Lo8(y), Hi8(y), font % 256, Len(str) % 256 >> \o str)
PGP_rect(x, y, w, h, fill) ==
  frame(CMD.RECT, << Lo8(x), Hi8(x), Lo8(y), Hi8(y),
                     Lo8(w), Hi8(w), Lo8(h), Hi8(h), fill % 256 >>)
PGP_feed(lines) == frame(CMD.FEED, << Lo8(lines), Hi8(lines) >>)
PGP_stop == frame(CMD.STOP, << >>)
PGP_setMode(mode) == frame(CMD.SET_MODE, << mode % 256 >>)
PGP_waitButton == frame(CMD.WAIT_BUTTON, << >>)
PGP_programStart == frame(CMD.PROGRAM_START, << >>)
PGP_programEnd == frame(CMD.PROGRAM_END, << >>)
PGP_spriteDef(id, w, h, data) ==
  frame(CMD.SPRITE_DEF, << id % 256, w % 256, h % 256 >> \o data)
PGP_spriteDraw(id, x, y) ==
  frame(CMD.SPRITE_DRAW, << id % 256, Lo8(x), Hi8(x), Lo8(y), Hi8(y) >>)

(***************************************************************************)
(* Branching commands.                                                     *)
(***************************************************************************)
PGP_label(id) == frame(CMD.LABEL, << Hi8(id), Lo8(id) >>)
PGP_jump(labelId) == frame(CMD.JUMP, << Hi8(labelId), Lo8(labelId) >>)
PGP_jumpIfBtn(buttonMask, labelId) ==
  LET mask == IF buttonMask = 0 THEN BTN_ANY ELSE buttonMask
  IN  frame(CMD.JUMP_IF_BTN, << mask % 256, Hi8(labelId), Lo8(labelId) >>)

RECURSIVE labelIdBytes(_)
labelIdBytes(labelIds) ==
  IF labelIds = << >> THEN << >>
  ELSE << Hi8(Head(labelIds)), Lo8(Head(labelIds)) >> \o labelIdBytes(Tail(labelIds))

PGP_randomJump(labelIds) ==
  frame(CMD.RANDOM_JUMP, << Len(labelIds) % 256 >> \o labelIdBytes(labelIds))
PGP_setVar(varId, value) ==
  frame(CMD.SET_VAR, << varId % 256, Hi8(value), Lo8(value) >>)
PGP_jumpIfVar(varId, op, value, labelId) ==
  frame(CMD.JUMP_IF_VAR, << varId % 256, op % 256, Hi8(value), Lo8(value),
                            Hi8(labelId), Lo8(labelId) >>)
PGP_jumpIfFader(op, threshold, labelId) ==
  frame(CMD.JUMP_IF_FADER, << op % 256, Lo8(threshold), Hi8(threshold),
                              Hi8(labelId), Lo8(labelId) >>)
PGP_waitFader(op, threshold) ==
  frame(CMD.WAIT_FADER, << op % 256, Lo8(threshold), Hi8(threshold) >>)
PGP_setFeedMode(mode) == frame(CMD.SET_FEED_MODE, << mode % 256 >>)

(***************************************************************************)
(* Font resolver.  A string is its sequence of code points.                *)
(***************************************************************************)
DOTS_PER_MM == 8
BASE_FONT_PX == << 7, 16, 8 >>
NoSize == -1                      \* sizeMm: null

Max(a, b) == IF a >= b THEN a ELSE b
Min(a, b) == IF a <= b THEN a ELSE b
\* Math.round(n / d) for integers n >= 0, d > 0
RoundDiv(n, d) == (2 * n + d) \div (2 * d)

sizeToFontScale(sizeMm, useJapanese) ==
  LET sizePx == sizeMm * DOTS_PER_MM
      base   == IF useJapanese THEN 2 ELSE IF sizePx >= 12 THEN 1 ELSE 0
  IN  [ baseFont |-> base,
        scale    |-> Max(1, Min(15, RoundDiv(sizePx, BASE_FONT_PX[base + 1]))) ]

\* variant: the extended layout already from scale 2 on
encodeFontByteFromScale2(baseFont, scale) ==
  IF baseFont >= 2 \/ scale >= 2
  THEN scale * 4 + (baseFont % 4)
  ELSE IF baseFont = 0 THEN scale - 1 ELSE 2 + scale - 1

encodeFontByte(baseFont, scale) ==
  IF baseFont >= 2 \/ scale > 2
  THEN scale * 4 + (baseFont % 4)
  ELSE IF baseFont = 0 THEN scale - 1 ELSE 2 + scale - 1

\* variant: ideographs only
hasCJKIdeographs(str) ==
  \E i \in 1..Len(str) : str[i] \in 19968..40959 \/ str[i] \in 13312..19903

\* Hiragana, Katakana, CJK ideographs, extension A, half-width Katakana
hasCJK(str) ==
  \E i \in 1..Len(str) :
     \/ str[i] \in 12352..12447
     \/ str[i] \in 12448..12543
     \/ str[i] \in 19968..40959
     \/ str[i] \in 13312..19903
     \/ str[i] \in 65381..65439

\* TextEncoder: UTF-8 of one code point of the basic plane
Utf8Char(c) ==
  IF c < 128 THEN << c >>
  ELSE IF c < 2048 THEN << 192 + (c \div 64), 128 + (c % 64) >>
  ELSE << 224 + (c \div 4096), 128 + ((c \div 64) % 64), 128 + (c % 64) >>

RECURSIVE Utf8(_)
Utf8(str) == IF str = << >> THEN << >> ELSE Utf8Char(Head(str)) \o Utf8(Tail(str))

(***************************************************************************)
(* Section: content blocks, as the Section methods push them.              *)
(***************************************************************************)
NoFn == [ fn |-> "none" ]

Section(id, feedMode, speed, maxLines) ==
  [ id |-> id, feedMode |-> feedMode, speed |-> speed, blocks |-> << >>,
    onLine |-> NoFn, onEnter |-> NoFn, onExit |-> NoFn, endCondition |-> NoFn,
    maxLines |-> maxLines ]

\* Section.text with opts.size
Section_textSize(x, str, sizeMm) ==
  LET fs == sizeToFontScale(sizeMm, FALSE)
  IN  [ type |-> "text", x |-> x, str |-> str, baseFont |-> fs.baseFont,
        scale |-> fs.scale, sizeMm |-> sizeMm ]
\* Section.text with opts.font (legacy 0..3)
Section_textFont(x, str, f) ==
  [ type |-> "text", x |-> x, str |-> str,
    baseFont |-> IF f < 2 THEN 0 ELSE 1,
    scale |-> IF f = 1 \/ f = 3 THEN 2 ELSE 1, sizeMm |-> NoSize ]
\* Section.text without size or font
Section_text(x, str) ==
  [ type |-> "text", x |-> x, str |-> str, baseFont |-> 1, scale |-> 1,
    sizeMm |-> NoSize ]
Section_rect(x, w, h, fill) == [ type |-> "rect", x |-> x, w |-> w, h |-> h, fill |-> fill ]
Section_fill(pattern, count) == [ type |-> "fill", pattern |-> pattern, count |-> count ]
Section_feed(lines) == [ type |-> "feed", lines |-> lines ]
Section_hline(thickness) == [ type |-> "hline", thickness |-> thickness ]
Section_image(rows) == [ type |-> "image", rows |-> rows ]
Section_waitButton == [ type |-> "waitButton" ]
Section_sprite(id, x, y) == [ type |-> "sprite", id |-> id, x |-> x, y |-> y ]
Section_label(id) == [ type |-> "label", id |-> id ]
Section_jump(labelId) == [ type |-> "jump", labelId |-> labelId ]
Section_jumpIfBtn(buttonMask, labelId) ==
  [ type |-> "jumpIfBtn", buttonMask |-> buttonMask, labelId |-> labelId ]
Section_randomJump(labelIds) == [ type |-> "randomJump", labelIds |-> labelIds ]
Section_setVar(varId, value) == [ type |-> "setVar", varId |-> varId, value |-> value ]
Section_jumpIfVar(varId, op, value, labelId) ==
  [ type |-> "jumpIfVar", varId |-> varId, op |-> op, value |-> value,
    labelId |-> labelId ]
Section_jumpIfFader(op, threshold, labelId) ==
  [ type |-> "jumpIfFader", op |-> op, threshold |-> threshold, labelId |-> labelId ]
Section_waitFader(op, threshold) ==
  [ type |-> "waitFader", op |-> op, threshold |-> threshold ]
Section_setFeedMode(mode) == [ type |-> "setFeedMode", mode |-> mode ]

WithBlocks(sec, blocks) == [ sec EXCEPT !.blocks = blocks ]

(***************************************************************************)
(* Game: the instruction emitter and the static part of the compiler.      *)
(***************************************************************************)
_blockToPGP(block) ==
  CASE block.type = "text" ->
         IF hasCJK(block.str)
         THEN LET scale == IF block.sizeMm # NoSize
                           THEN Max(1, Min(15, RoundDiv(block.sizeMm * 8, 8)))
                           ELSE block.scale
              IN  << PGP_text(block.x, 0, encodeFontByte(2, scale), Utf8(block.str)) >>
         ELSE << PGP_text(block.x, 0, encodeFontByte(block.baseFont, block.scale),
                          Utf8(block.str)) >>
    [] block.type = "rect"  -> << PGP_rect(block.x, 0, block.w, block.h, block.fill) >>
    [] block.type = "fill"  -> << PGP_fillLine(block.pattern, block.count) >>
    [] block.type = "feed"  -> << PGP_feed(block.lines) >>
    [] block.type = "hline" -> << PGP_fillLine(255, block.thickness) >>
    [] block.type = "image" ->
         [ i \in 1..Len(block.rows) |-> PGP_rawLineRle(block.rows[i]) ]
    [] block.type = "waitButton"  -> << PGP_waitButton >>
    [] block.type = "sprite"      -> << PGP_spriteDraw(block.id, block.x, block.y) >>
    [] block.type = "label"       -> << PGP_label(block.id) >>
    [] block.type = "jump"        -> << PGP_jump(block.labelId) >>
    [] block.type = "jumpIfBtn"   -> << PGP_jumpIfBtn(block.buttonMask, block.labelId) >>
    [] block.type = "randomJump"  -> << PGP_randomJump(block.labelIds) >>
    [] block.type = "setVar"      -> << PGP_setVar(block.varId, block.value) >>
    [] block.type = "jumpIfVar"   ->
         << PGP_jumpIfVar(block.varId, block.op, block.value, block.labelId) >>
    [] block.type = "jumpIfFader" ->
         << PGP_jumpIfFader(block.op, block.threshold, block.labelId) >>
    [] block.type = "waitFader"   -> << PGP_waitFader(block.op, block.threshold) >>
    [] block.type = "setFeedMode" -> << PGP_setFeedMode(block.mode) >>
    [] OTHER -> << >>

RECURSIVE blocksToPGP(_)
blocksToPGP(blocks) ==
  IF blocks = << >> THEN << >>
  ELSE _blockToPGP(Head(blocks)) \o blocksToPGP(Tail(blocks))

\* { auto: 0, elastic: 1, precise: 2 }[section.feedMode] ?? 0
feedModeNumber(feedMode) ==
  CASE feedMode = "auto" -> 0
    [] feedMode = "elastic" -> 1
    [] feedMode = "precise" -> 2
    [] OTHER -> 0

\* setup that sends SET_SPEED in every mode
setupFramesSpeedAlways(section) ==
  LET mode == feedModeNumber(section.feedMode)
  IN  (IF mode # 0 THEN << PGP_setMode(mode) >> ELSE << >>)
        \o << PGP_setSpeed(section.speed) >>

\* _compileSectionFrames: the SET_MODE / SET_SPEED frames of a section
setupFrames(section) ==
  LET mode == feedModeNumber(section.feedMode)
  IN  (IF mode # 0 THEN << PGP_setMode(mode) >> ELSE << >>)
        \o (IF section.feedMode = "auto" \/ mode = 0
            THEN << PGP_setSpeed(section.speed) >> ELSE << >>)

\* a section whose setup frames follow its blocks
staticBlocksFirst(section) == blocksToPGP(section.blocks) \o setupFrames(section)

\* _compileSectionFrames of a section without a line generator
staticSectionFrames(section) == setupFrames(section) \o blocksToPGP(section.blocks)

\* _compileSectionFrames of a section with a line generator, given the
\* scanlines _runDynamic returned
dynamicSectionFrames(section, rows) ==
  setupFrames(section) \o [ i \in 1..Len(rows) |-> PGP_rawLineRle(rows[i]) ]

branchingTypes == { "label", "jump", "jumpIfBtn", "randomJump", "setVar",
                    "jumpIfVar", "jumpIfFader", "waitFader", "setFeedMode" }

\* a scan that returns after the first section
hasBranchingFirstSection(secs) ==
  Len(secs) >= 1 /\ \E j \in 1..Len(secs[1].blocks) :
     secs[1].blocks[j].type \in branchingTypes

_hasBranchingCommands(secs) ==
  \E i \in 1..Len(secs) : \E j \in 1..Len(secs[i].blocks) :
     secs[i].blocks[j].type \in branchingTypes

\* _validateLabels, step 1
definedLabels(secs) ==
  UNION { { secs[i].blocks[j].id :
              j \in { k \in 1..Len(secs[i].blocks) : secs[i].blocks[k].type = "label" } } :
          i \in 1..Len(secs) }

\* _validateLabels, step 2: the errors one block adds
RECURSIVE undefinedIn(_, _, _)
undefinedIn(sectionId, labelIds, defined) ==
  IF labelIds = << >> THEN << >>
  ELSE (IF Head(labelIds) \notin defined
        THEN << [ section |-> sectionId, kind |-> "randomJump",
                  label |-> Head(labelIds) ] >>
        ELSE << >>) \o undefinedIn(sectionId, Tail(labelIds), defined)

blockErrors(sectionId, block, defined) ==
  (IF block.type \in {"jump", "jumpIfBtn"} /\ block.labelId \notin defined
   THEN << [ section |-> sectionId, kind |-> "jump", label |-> block.labelId ] >>
   ELSE << >>)
  \o (IF block.type = "jumpIfVar" /\ block.labelId \notin defined
      THEN << [ section |-> sectionId, kind |-> "jumpIfVar", label |-> block.labelId ] >>
      ELSE << >>)
  \o (IF block.type = "randomJump"
      THEN undefinedIn(sectionId, block.labelIds, defined)
      ELSE << >>)

RECURSIVE blocksErrors(_, _, _)
blocksErrors(sectionId, blocks, defined) ==
  IF blocks = << >> THEN << >>
  ELSE blockErrors(sectionId, Head(blocks), defined)
         \o blocksErrors(sectionId, Tail(blocks), defined)

RECURSIVE sectionsErrors(_, _)
sectionsErrors(secs, defined) ==
  IF secs = << >> THEN << >>
  ELSE blocksErrors(Head(secs).id, Head(secs).blocks, defined)
         \o sectionsErrors(Tail(secs), defined)

\* a validation that looks at no reference
validateNothing(secs) == << >>

\* _validateLabels: the errors of the CompileError thrown, << >> when it returns
_validateLabels(secs) == sectionsErrors(secs, definedLabels(secs))

\* this.sections.get(id): the index of the section in the table, 0 when absent
sectionIndex(secs, id) ==
  IF \E i \in 1..Len(secs) : secs[i].id = id
  THEN CHOOSE i \in 1..Len(secs) : secs[i].id = id
  ELSE 0

spriteDefs(sprs) ==
  [ i \in 1..Len(sprs) |-> PGP_spriteDef(sprs[i].id, sprs[i].w, sprs[i].h, sprs[i].data) ]

\* _concatFrames over frames[lo..hi], by halves
RECURSIVE concatRange(_, _, _)
concatRange(fs, lo, hi) ==
  IF lo > hi THEN << >>
  ELSE IF lo = hi THEN fs[lo]
  ELSE LET mid == (lo + hi) \div 2
       IN  concatRange(fs, lo, mid) \o concatRange(fs, mid + 1, hi)

_concatFrames(fs) == concatRange(fs, 1, Len(fs))

(***************************************************************************)
(* LineContext: the object handed to the callbacks of a dynamic section.   *)
(* Its vars field is Game.vars itself (the variable vars).                 *)
(***************************************************************************)
WIDTH   == 576
NoGoto  == -1                     \* _goto: null
NoSpeed == -1                     \* _speed: null
NoVal   == -1                     \* vars.get(key): undefined
VarKeys == { "n", "enter", "exit" }

zeroLine == [ i \in 1..BPL |-> 0 ]

LineContext(maxLines) ==
  [ line |-> 0, maxLines |-> maxLines, buf |-> zeroLine, done |-> FALSE,
    goto |-> NoGoto, speed |-> NoSpeed ]

BitSet(b, k) == (b \div (2 ^ k)) % 2 = 1
\* b | (1 << k) for every k in ks
OrBits(b, ks) ==
  LET bit(k) == IF BitSet(b, k) \/ k \in ks THEN 2 ^ k ELSE 0
  IN  bit(0) + bit(1) + bit(2) + bit(3) + bit(4) + bit(5) + bit(6) + bit(7)
\* b & ~(1 << k)
ClearBit(b, k) == IF BitSet(b, k) THEN b - 2 ^ k ELSE b

LineContext_emit(l, data) ==
  [ l EXCEPT !.buf = [ i \in 1..BPL |-> IF i <= Len(data) THEN data[i] % 256 ELSE @[i] ] ]

LineContext_pixel(l, x, on) ==
  IF x < 0 \/ x >= WIDTH THEN l
  ELSE [ l EXCEPT !.buf[(x \div 8) + 1] =
           IF on THEN OrBits(@, { 7 - (x % 8) }) ELSE ClearBit(@, 7 - (x % 8)) ]

LineContext_range(l, x1, x2) ==
  LET a == Max(0, x1)
      b == Min(WIDTH, x2)
  IN  [ l EXCEPT !.buf =
          [ i \in 1..BPL |->
              OrBits(@[i], { 7 - (x % 8) : x \in { y \in a..(b - 1) : y \div 8 = i - 1 } }) ] ]

LineContext_setSpeed(l, pps) == [ l EXCEPT !.speed = pps ]
LineContext_done(l) == [ l EXCEPT !.done = TRUE ]
LineContext_goto(l, sectionId) == [ l EXCEPT !.goto = sectionId, !.done = TRUE ]

varsGet(v, key) == v[key]
varsSet(v, key, value) == [ v EXCEPT ![key] = value ]

(***************************************************************************)
(* Callbacks a caller can install on a section.  A line generator draws    *)
(* (nothing, a bar growing with the line index, one pixel, a bar growing   *)
(* with the counter vars.n which it increments, or a full emitted line of  *)
(* alternating bytes) and raises done(), goto() and setSpeed() on the line *)
(* indices it is configured with (-1: never).                              *)
(***************************************************************************)
Gen(draw, doneAt, gotoAt, speedAt) ==
  [ fn |-> "gen", draw |-> draw, doneAt |-> doneAt, gotoAt |-> gotoAt,
    speedAt |-> speedAt ]

CallbackResult(l, v) == [ l |-> l, v |-> v ]

genDraw(g, l, v) ==
  CASE g.draw = "bar"   -> CallbackResult(LineContext_range(l, 0, 8 * (l.line + 1)), v)
    [] g.draw = "dot"   -> CallbackResult(LineContext_pixel(l, 9 * l.line, TRUE), v)
    [] g.draw = "count" ->
         LET n == IF varsGet(v, "n") = NoVal THEN 0 ELSE varsGet(v, "n")
         IN  CallbackResult(LineContext_range(l, 0, 8 * n), varsSet(v, "n", n + 1))
    [] g.draw = "emit"  ->
         CallbackResult(LineContext_emit(l, [ i \in 1..BPL |-> IF i % 2 = 0 THEN 170 ELSE 85 ]), v)
    [] OTHER -> CallbackResult(l, v)

\* section._onLine(lctx)
callOnLine(g, l, v) ==
  LET r  == genDraw(g, l, v)
      l1 == IF l.line = g.speedAt THEN LineContext_setSpeed(r.l, 5000) ELSE r.l
      l2 == IF l.line = g.doneAt  THEN LineContext_done(l1) ELSE l1
      l3 == IF l.line = g.gotoAt  THEN LineContext_goto(l2, 2) ELSE l2
  IN  CallbackResult(l3, r.v)

\* section._endCondition(lctx): true from line index endAt on
EndAt(n) == [ fn |-> "end", endAt |-> n ]
callEndCondition(e, l, v) == l.line >= e.endAt

\* section._onEnter(lctx) / section._onExit(lctx): a hook notes the call in
\* vars; it is handed the same LineContext as the generator, and HookDone
\* calls done() on it
Hook     == [ fn |-> "hook", signal |-> "none" ]
HookDone == [ fn |-> "hook", signal |-> "done" ]
callOnEnter(h, l, v) ==
  CallbackResult(IF h.signal = "done" THEN LineContext_done(l) ELSE l,
                 varsSet(v, "enter", 1))
callOnExit(h, l, v)  ==
  CallbackResult(IF h.signal = "done" THEN LineContext_done(l) ELSE l,
                 varsSet(v, "exit", l.line))

WithGen(sec, g, e, enter, exit) ==
  [ sec EXCEPT !.onLine = g, !.endCondition = e, !.onEnter = enter, !.onExit = exit ]

(***************************************************************************)
(* Game: construction, compile() and start().                              *)
(***************************************************************************)
CHUNK == 4096
NoVars == [ k \in VarKeys |-> NoVal ]
NoCall == [ op |-> "none", args |-> << >> ]

\* the calls of Printer.send / sendChunked the application can have running
\* at once: the print handler's and the test handler's
SenderIds == { 1, 2 }
NoError == [ name |-> "none" ]
IdleSender == [ op |-> "none", len |-> 0, i |-> 0, st |-> "idle", err |-> NoError ]

\* new Printer(): no writer, nothing sent
XferIdle ==
  /\ _writer = 0
  /\ conns = 0
  /\ senders = [ s \in SenderIds |-> IdleSender ]
  /\ inflight = << >>
  /\ wire = << >>

\* new Printer() before connect(), the port closed
ReadIdle ==
  /\ _port = 0
  /\ portState = "closed"
  /\ _readerRunning = FALSE
  /\ loops = << >>
  /\ cpc = "none"
  /\ dpc = "none"
  /\ received = 0

MaxPrinters == 3       \* Printer objects printer.js creates in one behaviour
NoPrint == [ op |-> "none", outcome |-> "none" ]

\* printer.js as loaded: let printer = null; let connected = false
AppIdle ==
  /\ printer = 0
  /\ connectedFlag = FALSE
  /\ printers = 0
  /\ writerOf = [ k \in 1..MaxPrinters |-> FALSE ]
  /\ ctask = 0
  /\ dtask = 0
  /\ lastPrint = NoPrint

\* the locals of compile(), _runDynamic() and sendChunked() before any call
IdleLocals ==
  /\ pc = "idle"
  /\ caller = "none"
  /\ hasBranching = FALSE
  /\ frames = << >>
  /\ flowIdx = 1
  /\ compiled = { }
  /\ restIdx = 1
  /\ dynFrom = "none"
  /\ lctx = LineContext(0)
  /\ scanlines = << >>
  /\ dynI = 0
  /\ out = NoRet
  /\ errors = << >>
  /\ running = FALSE
  /\ written = << >>
  /\ sendPos = 0
  /\ emitted = << >>
  /\ genCalls = 0
  /\ prevOut = NoRet
  /\ XferIdle
  /\ ReadIdle
  /\ AppIdle

\* new Game(), new Printer()
GameNew ==
  /\ sections = << >>
  /\ flow = << >>
  /\ sprites = << >>
  /\ vars = NoVars
  /\ connected = FALSE
  /\ IdleLocals

\* a Game the caller has built: sections in the table, a flow, sprites
GameBuilt(prog) ==
  /\ sections = prog.sections
  /\ flow = prog.flow
  /\ sprites = prog.sprites
  /\ vars = NoVars
  /\ connected = FALSE
  /\ IdleLocals

Program(secs, fl, sprs) == [ sections |-> secs, flow |-> fl, sprites |-> sprs ]

\* a compile() that never walks the section table after the flow
afterFlowOnly(i, branching) == IF i <= Len(flow) THEN "flow" ELSE "trailer"
\* where compile() goes on after iteration i - 1 of the loop over this._flow
afterFlow(i, branching) ==
  IF i <= Len(flow) THEN "flow"
  ELSE IF branching /\ Len(sections) >= 1 THEN "rest"
  ELSE "trailer"
\* where compile() goes on after iteration j - 1 of the loop over this.sections
afterRest(j) == IF j <= Len(sections) THEN "rest" ELSE "trailer"

\* compile() from its first statement to the first section: branch detection,
\* label validation (which may throw), the program wrapper, the sprite table
compileBegin ==
  LET branching == _hasBranchingCommands(sections)
      errs      == IF branching THEN _validateLabels(sections) ELSE << >>
  IN  /\ hasBranching' = branching
      /\ IF errs # << >>
         THEN /\ errors' = errs
              /\ pc' = "failed"
              /\ frames' = << >>
         ELSE /\ errors' = << >>
              /\ frames' = (IF branching THEN << PGP_programStart >> ELSE << >>)
                              \o spriteDefs(sprites)
              /\ pc' = afterFlow(1, branching)
      /\ flowIdx' = 1
      /\ restIdx' = 1
      /\ compiled' = { }
      /\ out' = NoRet
      /\ UNCHANGED << sections, flow, sprites, vars, dynFrom, lctx, scanlines, dynI,
                      connected, written, sendPos, emitted, genCalls, call, ret >>
      /\ UNCHANGED << xferVars, restVars >>

\* game.compile() called by the application
CompileBegin ==
  /\ pc = "idle"
  /\ caller' = "compile"
  /\ compileBegin
  /\ UNCHANGED << running, prevOut >>

\* the section whose line generator is running
dynIndex == IF dynFrom = "flow" THEN sectionIndex(sections, flow[flowIdx]) ELSE restIdx

\* _compileSectionFrames(section) for section k: a static section is emitted
\* at once; for a dynamic one _runDynamic starts (LineContext, enter hook)
compileSection(k, from) ==
  LET sec == sections[k] IN
  /\ emitted' = Append(emitted, sec.id)
  /\ IF sec.onLine.fn # "none"
     THEN LET l0 == LineContext(sec.maxLines)
              r  == IF sec.onEnter.fn # "none"
                    THEN callOnEnter(sec.onEnter, l0, vars)
                    ELSE CallbackResult(l0, vars)
          IN  /\ pc' = "dyn"
              /\ dynFrom' = from
              /\ lctx' = r.l
              /\ vars' = r.v
              /\ scanlines' = << >>
              /\ dynI' = 0
              /\ genCalls' = genCalls + (IF sec.onEnter.fn # "none" THEN 1 ELSE 0)
              /\ UNCHANGED << frames, flowIdx, restIdx, compiled >>
     ELSE /\ frames' = frames \o staticSectionFrames(sec)
          /\ IF from = "flow"
             THEN /\ flowIdx' = flowIdx + 1
                  /\ pc' = afterFlow(flowIdx + 1, hasBranching)
                  /\ compiled' = IF hasBranching THEN compiled \cup { sec.id } ELSE compiled
                  /\ UNCHANGED restIdx
             ELSE /\ restIdx' = restIdx + 1
                  /\ pc' = afterRest(restIdx + 1)
                  /\ UNCHANGED << flowIdx, compiled >>
          /\ UNCHANGED << dynFrom, lctx, vars, scanlines, dynI, genCalls >>

\* one iteration of "for (const id of this._flow)"
CompileFlowSection ==
  /\ pc = "flow"
  /\ LET k == sectionIndex(sections, flow[flowIdx]) IN
     IF k = 0
     THEN /\ flowIdx' = flowIdx + 1
          /\ pc' = afterFlow(flowIdx + 1, hasBranching)
          /\ UNCHANGED << frames, compiled, restIdx, dynFrom, lctx, vars, scanlines,
                          dynI, emitted, genCalls >>
     ELSE compileSection(k, "flow")
  /\ UNCHANGED << sections, flow, sprites, caller, hasBranching, out, errors,
                  connected, running, written, sendPos, call, ret >>
  /\ UNCHANGED << xferVars, extVars >>

\* one iteration of "for (const [id, section] of this.sections)"
CompileRestSection ==
  /\ pc = "rest"
  /\ IF sections[restIdx].id \in compiled
     THEN /\ restIdx' = restIdx + 1
          /\ pc' = afterRest(restIdx + 1)
          /\ UNCHANGED << frames, compiled, flowIdx, dynFrom, lctx, vars, scanlines,
                          dynI, emitted, genCalls >>
     ELSE compileSection(restIdx, "rest")
  /\ UNCHANGED << sections, flow, sprites, caller, hasBranching, out, errors,
                  connected, running, written, sendPos, call, ret >>
  /\ UNCHANGED << xferVars, extVars >>

\* _runDynamic: one iteration of "for (let i = 0; i < section.maxLines; i++)"
DynLine ==
  /\ pc = "dyn"
  /\ dynI < sections[dynIndex].maxLines
  /\ LET sec == sections[dynIndex]
         l0  == [ lctx EXCEPT !.line = dynI, !.buf = zeroLine, !.speed = NoSpeed ]
         r   == callOnLine(sec.onLine, l0, vars)
         ask == ~r.l.done /\ sec.endCondition.fn # "none"
     IN  /\ lctx' = r.l
         /\ vars' = r.v
         /\ scanlines' = Append(scanlines, r.l.buf)
         /\ genCalls' = genCalls + 1 + (IF ask THEN 1 ELSE 0)
         /\ IF r.l.done \/ (ask /\ callEndCondition(sec.endCondition, r.l, r.v))
            THEN pc' = "dynBreak" /\ dynI' = dynI
            ELSE pc' = "dyn" /\ dynI' = dynI + 1
  /\ UNCHANGED << sections, flow, sprites, caller, hasBranching, frames, flowIdx,
                  compiled, restIdx, dynFrom, out, errors, connected, running,
                  written, sendPos, emitted, call, ret >>
  /\ UNCHANGED << xferVars, extVars >>

\* what a caller of compile() can read of the transitions generators asked
\* for: LineContext._goto is the one place a target is stored
requestedTransitions == IF lctx.goto = NoGoto THEN { } ELSE { lctx.goto }

\* _runDynamic after its loop (exit hook, return of the scanlines alone: the
\* LineContext is a local and ends here), then the rest of
\* _compileSectionFrames and of the iteration of compile() that called it
DynExit ==
  /\ \/ pc = "dynBreak"
     \/ pc = "dyn" /\ dynI >= sections[dynIndex].maxLines
  /\ LET sec == sections[dynIndex]
         r   == IF sec.onExit.fn # "none"
                THEN callOnExit(sec.onExit, lctx, vars)
                ELSE CallbackResult(lctx, vars)
     IN  /\ lctx' = LineContext(0)
         /\ vars' = r.v
         /\ genCalls' = genCalls + (IF sec.onExit.fn # "none" THEN 1 ELSE 0)
         /\ frames' = frames \o dynamicSectionFrames(sec, scanlines)
         /\ IF dynFrom = "flow"
            THEN /\ flowIdx' = flowIdx + 1
                 /\ pc' = afterFlow(flowIdx + 1, hasBranching)
                 /\ compiled' = IF hasBranching THEN compiled \cup { sec.id } ELSE compiled
                 /\ UNCHANGED restIdx
            ELSE /\ restIdx' = restIdx + 1
                 /\ pc' = afterRest(restIdx + 1)
                 /\ UNCHANGED << flowIdx, compiled >>
  /\ UNCHANGED << sections, flow, sprites, caller, hasBranching, dynFrom, scanlines,
                  dynI, out, errors, connected, running, written, sendPos, emitted,
                  call, ret >>
  /\ UNCHANGED << xferVars, extVars >>

\* a trailer that stops before the final feed
trailerStopFirst(branching) ==
  << PGP_stop, PGP_feed(16) >> \o (IF branching THEN << PGP_programEnd >> ELSE << >>)
\* compile(): the frames pushed after the sections
trailerFrames(branching) ==
  << PGP_feed(16), PGP_stop >> \o (IF branching THEN << PGP_programEnd >> ELSE << >>)

\* compile(): the trailer, the program end, _concatFrames, return
CompileEnd ==
  /\ pc = "trailer"
  /\ frames' = frames \o trailerFrames(hasBranching)
  /\ out' = _concatFrames(frames')
  /\ pc' = "compiled"
  /\ UNCHANGED << sections, flow, sprites, vars, caller, hasBranching, flowIdx,
                  compiled, restIdx, dynFrom, lctx, scanlines, dynI, errors,
                  connected, running, written, sendPos, emitted, genCalls, call, ret >>
  /\ UNCHANGED << xferVars, extVars >>

\* game.compile() called a second time on the same Game, its caller keeping
\* the stream of the first call; nothing of the Game is changed in between
CompileAgain ==
  /\ pc = "compiled"
  /\ caller = "compile"
  /\ prevOut = NoRet
  /\ prevOut' = out
  /\ compileBegin
  /\ UNCHANGED << caller, running >>

\* printer.connect() succeeding: the writer is taken
Connect ==
  /\ pc = "idle"
  /\ ~connected
  /\ connected' = TRUE
  /\ UNCHANGED << sections, flow, sprites, vars, pc, caller, hasBranching, frames,
                  flowIdx, compiled, restIdx, dynFrom, lctx, scanlines, dynI, out,
                  errors, running, written, sendPos, emitted, genCalls, call, ret >>
  /\ UNCHANGED << xferVars, extVars >>

\* game.start() without a connection: ConnectionError
StartRejected ==
  /\ pc = "idle"
  /\ ~connected
  /\ pc' = "rejected"
  /\ caller' = "start"
  /\ UNCHANGED << sections, flow, sprites, vars, hasBranching, frames, flowIdx,
                  compiled, restIdx, dynFrom, lctx, scanlines, dynI, out, errors,
                  connected, running, written, sendPos, emitted, genCalls, call, ret >>
  /\ UNCHANGED << xferVars, extVars >>

\* game.start() with a connection: _running = true, then compile()
StartBegin ==
  /\ pc = "idle"
  /\ connected
  /\ running' = TRUE
  /\ caller' = "start"
  /\ compileBegin
  /\ UNCHANGED prevOut

\* start(): compile() threw; finally _running = false, the error propagates
StartThrow ==
  /\ caller = "start"
  /\ pc = "failed"
  /\ running' = FALSE
  /\ pc' = "thrown"
  /\ UNCHANGED << sections, flow, sprites, vars, caller, hasBranching, frames,
                  flowIdx, compiled, restIdx, dynFrom, lctx, scanlines, dynI, out,
                  errors, connected, written, sendPos, emitted, genCalls, call, ret >>
  /\ UNCHANGED << xferVars, extVars >>

\* sendChunked: one iteration of the loop, the write of out[sendPos .. end)
SendChunk ==
  /\ caller = "start"
  /\ connected
  /\ \/ pc = "compiled" /\ sendPos = 0
     \/ pc = "sending"
  /\ sendPos < Len(out)
  /\ written' = Append(written, SubSeq(out, sendPos + 1, Min(sendPos + CHUNK, Len(out))))
  /\ sendPos' = sendPos + CHUNK
  /\ pc' = "sending"
  /\ UNCHANGED << sections, flow, sprites, vars, caller, hasBranching, frames,
                  flowIdx, compiled, restIdx, dynFrom, lctx, scanlines, dynI, out,
                  errors, connected, running, emitted, genCalls, call, ret >>
  /\ UNCHANGED << xferVars, extVars >>

\* sendChunked threw (the write of the chunk at sendPos was rejected);
\* finally _running = false, the error propagates
SendFail ==
  /\ caller = "start"
  /\ \/ pc = "compiled" /\ sendPos = 0
     \/ pc = "sending"
  /\ sendPos < Len(out)
  /\ running' = FALSE
  /\ pc' = "writeFailed"
  /\ UNCHANGED << sections, flow, sprites, vars, caller, hasBranching, frames,
                  flowIdx, compiled, restIdx, dynFrom, lctx, scanlines, dynI, out,
                  errors, connected, written, sendPos, emitted, genCalls, call, ret >>
  /\ UNCHANGED << xferVars, extVars >>

\* game.stop(), called while no code of the Game is running: before or after
\* a call, or while start() awaits a write
Stop ==
  /\ pc \notin { "flow", "rest", "dyn", "dynBreak", "trailer" }
  /\ ~(caller = "start" /\ pc \in { "compiled", "failed" })
  /\ running' = FALSE
  /\ UNCHANGED << sections, flow, sprites, vars, pc, caller, hasBranching, frames,
                  flowIdx, compiled, restIdx, dynFrom, lctx, scanlines, dynI, out,
                  errors, connected, written, sendPos, emitted, genCalls, call, ret >>
  /\ UNCHANGED << xferVars, extVars >>

\* sendChunked returned; finally _running = false
StartDone ==
  /\ caller = "start"
  /\ pc = "sending"
  /\ sendPos >= Len(out)
  /\ running' = FALSE
  /\ pc' = "sent"
  /\ UNCHANGED << sections, flow, sprites, vars, caller, hasBranching, frames,
                  flowIdx, compiled, restIdx, dynFrom, lctx, scanlines, dynI, out,
                  errors, connected, written, sendPos, emitted, genCalls, call, ret >>
  /\ UNCHANGED << xferVars, extVars >>

(***************************************************************************)
(* Printer: connect, disconnect, send and sendChunked as asynchronous      *)
(* operations.  Each await is a suspension point: a call runs from one     *)
(* await to the next in one step, and the promise of a write settles       *)
(* (resolves or rejects) at any later time, the writes of one writer in    *)
(* the order they were handed to it.                                       *)
(***************************************************************************)
MaxConns == 2          \* connections opened in one behaviour

compileVars == << sections, flow, sprites, vars, pc, caller, hasBranching, frames,
                  flowIdx, compiled, restIdx, dynFrom, lctx, scanlines, dynI, out,
                  errors, running, written, sendPos, emitted, genCalls >>

\* the lengths of the streams handed to send / sendChunked
StreamLens == { 100, 4096, 5000, 9000 }

Write(s, conn, from, to) == [ sender |-> s, conn |-> conn, from |-> from, to |-> to ]

\* this._writer.write(data.slice(from, to)) by call s: with no writer the
\* property access throws a TypeError; otherwise the write is handed to the
\* current writer and the call awaits its promise
issueWrite(s, sd, from, to) ==
  IF _writer = 0
  THEN /\ senders' = [ senders EXCEPT ![s] =
                         [ sd EXCEPT !.i = from, !.st = "err", !.err = [ name |-> "TypeError" ] ] ]
       /\ UNCHANGED << inflight, wire >>
  ELSE /\ senders' = [ senders EXCEPT ![s] = [ sd EXCEPT !.i = from, !.st = "await" ] ]
       /\ inflight' = Append(inflight, Write(s, _writer, from, to))
       /\ wire' = Append(wire, Write(s, _writer, from, to))

\* Printer.connect(): a port is opened and its writer taken
XConnect ==
  /\ _writer = 0
  /\ conns < MaxConns
  /\ conns' = conns + 1
  /\ _writer' = conns + 1
  /\ connected' = TRUE
  /\ UNCHANGED << senders, inflight, wire, compileVars, call, ret, extVars >>

\* Printer.disconnect(): the writer's lock is released, _writer = null
XDisconnect ==
  /\ _writer # 0
  /\ _writer' = 0
  /\ connected' = FALSE
  /\ UNCHANGED << conns, senders, inflight, wire, compileVars, call, ret, extVars >>

\* Printer.send(data), as printModel and testPrint call it: one write of the
\* whole stream
CallSend(s, n) ==
  /\ senders[s].st = "idle"
  /\ LET sd == [ IdleSender EXCEPT !.op = "send", !.len = n ] IN
     IF _writer = 0
     THEN /\ senders' = [ senders EXCEPT ![s] =
                            [ sd EXCEPT !.st = "err", !.err = [ name |-> "ConnectionError" ] ] ]
          /\ UNCHANGED << inflight, wire >>
     ELSE issueWrite(s, sd, 0, n)
  /\ UNCHANGED << _writer, conns, connected, compileVars, call, ret, extVars >>

\* Printer.sendChunked(data), as Game.start calls it: the writer check and
\* the first iteration of the loop
CallSendChunked(s, n) ==
  /\ senders[s].st = "idle"
  /\ LET sd == [ IdleSender EXCEPT !.op = "sendChunked", !.len = n ] IN
     IF _writer = 0
     THEN /\ senders' = [ senders EXCEPT ![s] =
                            [ sd EXCEPT !.st = "err", !.err = [ name |-> "ConnectionError" ] ] ]
          /\ UNCHANGED << inflight, wire >>
     ELSE issueWrite(s, sd, 0, Min(CHUNK, n))
  /\ UNCHANGED << _writer, conns, connected, compileVars, call, ret, extVars >>

\* the write at position k is the oldest one its writer still holds
Oldest(k) == \A j \in 1..(k - 1) : inflight[j].conn # inflight[k].conn
Without(k) == SubSeq(inflight, 1, k - 1) \o SubSeq(inflight, k + 1, Len(inflight))

\* a write's promise resolves: send returns; sendChunked goes round its loop
\* (i += CHUNK) and, unless the stream is through, hands over the next chunk
WriteResolve(k) ==
  /\ k \in 1..Len(inflight)
  /\ Oldest(k)
  /\ LET s    == inflight[k].sender
         sd   == senders[s]
         next == sd.i + CHUNK
     IN  IF sd.op = "send" \/ next >= sd.len
         THEN /\ senders' = [ senders EXCEPT ![s] = [ sd EXCEPT !.st = "ok" ] ]
              /\ inflight' = Without(k)
              /\ UNCHANGED wire
         ELSE IF _writer = 0
         THEN /\ senders' = [ senders EXCEPT ![s] =
                   [ sd EXCEPT !.i = next, !.st = "err", !.err = [ name |-> "TypeError" ] ] ]
              /\ inflight' = Without(k)
              /\ UNCHANGED wire
         ELSE /\ senders' = [ senders EXCEPT ![s] = [ sd EXCEPT !.i = next ] ]
              /\ inflight' = Append(Without(k), Write(s, _writer, next, Min(next + CHUNK, sd.len)))
              /\ wire' = Append(wire, Write(s, _writer, next, Min(next + CHUNK, sd.len)))
  /\ UNCHANGED << _writer, conns, connected, compileVars, call, ret, extVars >>

\* a write's promise rejects: sendChunked logs the offset and rethrows the
\* writer's error; send lets it through
WriteReject(k) ==
  /\ k \in 1..Len(inflight)
  /\ Oldest(k)
  /\ LET s == inflight[k].sender IN
     senders' = [ senders EXCEPT ![s] =
                    [ @ EXCEPT !.st = "err", !.err = [ name |-> "WriteError" ] ] ]
  /\ inflight' = Without(k)
  /\ UNCHANGED << wire, _writer, conns, connected, compileVars, call, ret, extVars >>

(***************************************************************************)
(* Printer: the port and the read loop.  connect() awaits port.open(),     *)
(* disconnect() awaits port.close(), and the loop of _startReader awaits   *)
(* reader.read(), which settles when the device sends a chunk, when the    *)
(* stream ends or when it fails.  A SerialPort opens only when closed, and *)
(* closes only when open with no reader holding its readable stream.       *)
(***************************************************************************)
MaxOpens == 2          \* ports opened in one behaviour
MaxReads == 2          \* chunks the device sends in one behaviour

WithoutLoop(k) == SubSeq(loops, 1, k - 1) \o SubSeq(loops, k + 1, Len(loops))

\* Printer.connect() up to "await this._port.open({ baudRate })"
RConnectBegin ==
  /\ cpc = "none"
  /\ conns < MaxOpens
  /\ _port' = 1
  /\ IF portState = "closed"
     THEN cpc' = "opening" /\ portState' = "opening"
     ELSE cpc' = "rejected" /\ UNCHANGED portState
  /\ UNCHANGED << _readerRunning, loops, dpc, received, _writer, conns, connected >>
  /\ UNCHANGED << senders, inflight, wire, compileVars, call, ret, appVars, prevOut >>

\* open() resolved: the writer is taken and _startReader() runs up to its
\* first "await reader.read()"; with _port set to null meanwhile the access
\* to this._port.writable throws and connect() fails
ROpenResolve ==
  /\ cpc = "opening"
  /\ cpc' = "none"
  /\ portState' = "open"
  /\ IF _port = 0
     THEN UNCHANGED << _writer, conns, connected, _readerRunning, loops >>
     ELSE /\ _writer' = conns + 1
          /\ conns' = conns + 1
          /\ connected' = TRUE
          /\ _readerRunning' = TRUE
          /\ loops' = Append(loops, conns + 1)
  /\ UNCHANGED << _port, dpc, received >>
  /\ UNCHANGED << senders, inflight, wire, compileVars, call, ret, appVars, prevOut >>

\* open() rejected: connect() throws a ConnectionError
ROpenReject ==
  /\ cpc \in { "opening", "rejected" }
  /\ cpc' = "none"
  /\ portState' = IF cpc = "opening" THEN "closed" ELSE portState
  /\ UNCHANGED << _port, _readerRunning, loops, dpc, received, _writer, conns, connected >>
  /\ UNCHANGED << senders, inflight, wire, compileVars, call, ret, appVars, prevOut >>

\* Printer.disconnect() up to "await this._port.close()"
RDisconnect ==
  /\ dpc # "closing"
  /\ _readerRunning' = FALSE
  /\ _writer' = 0
  /\ connected' = FALSE
  /\ IF _port # 0
     THEN /\ dpc' = "closing"
          /\ portState' = IF portState = "open" /\ loops = << >>
                           THEN "closed" ELSE portState
     ELSE /\ dpc' = "done"
          /\ UNCHANGED portState
  /\ UNCHANGED << _port, loops, cpc, received, conns >>
  /\ UNCHANGED << senders, inflight, wire, compileVars, call, ret, appVars, prevOut >>

\* close() settled (a rejection is caught and dropped): _port = null
RCloseSettle ==
  /\ dpc = "closing"
  /\ dpc' = "done"
  /\ _port' = 0
  /\ UNCHANGED << portState, _readerRunning, loops, cpc, received, _writer, conns, connected >>
  /\ UNCHANGED << senders, inflight, wire, compileVars, call, ret, appVars, prevOut >>

\* reader.read() of loop k resolved with a chunk: it is passed on, then the
\* loop tests _readerRunning and reads again or releases its reader
ReadValue(k) ==
  /\ k \in 1..Len(loops)
  /\ portState = "open"
  /\ received < MaxReads
  /\ received' = received + 1
  /\ loops' = IF _readerRunning THEN loops ELSE WithoutLoop(k)
  /\ UNCHANGED << _port, portState, _readerRunning, cpc, dpc, _writer, conns, connected >>
  /\ UNCHANGED << senders, inflight, wire, compileVars, call, ret, appVars, prevOut >>

\* reader.read() of loop k resolved with done or rejected (the device is
\* gone): the loop releases its reader
ReadEnd(k) ==
  /\ k \in 1..Len(loops)
  /\ loops' = WithoutLoop(k)
  /\ UNCHANGED << _port, portState, _readerRunning, cpc, dpc, received, _writer, conns,
                  connected >>
  /\ UNCHANGED << senders, inflight, wire, compileVars, call, ret, appVars, prevOut >>

(***************************************************************************)
(* printer.js: the module's connect, disconnect, isConnected, printModel   *)
(* and testPrint over the Printer objects it creates.  connect and         *)
(* disconnect suspend at their await; a print runs from its check to the   *)
(* call of printer.send without suspending.                                *)
(***************************************************************************)
notAppVars == << pgpVars, gameVars, xferVars, readVars, prevOut >>

isConnected == connectedFlag /\ printer # 0

\* connect() up to "await printer.connect(baudRate)"
AppConnect ==
  /\ ctask = 0
  /\ printers < MaxPrinters
  /\ printers' = printers + 1
  /\ printer' = printers + 1
  /\ ctask' = printers + 1
  /\ UNCHANGED << connectedFlag, writerOf, dtask, lastPrint, notAppVars >>

\* Printer.connect() resolved (its _writer is set): connected = true
AppConnectResolve ==
  /\ ctask # 0
  /\ printer = ctask
  /\ writerOf' = [ writerOf EXCEPT ![ctask] = TRUE ]
  /\ connectedFlag' = TRUE
  /\ ctask' = 0
  /\ UNCHANGED << printer, printers, dtask, lastPrint, notAppVars >>

\* Printer.connect() rejected: connected = false, the error is thrown on
AppConnectReject ==
  /\ ctask # 0
  /\ connectedFlag' = FALSE
  /\ ctask' = 0
  /\ UNCHANGED << printer, printers, writerOf, dtask, lastPrint, notAppVars >>

\* disconnect() up to "await printer.disconnect()", which itself runs up to
\* its await of port.close(): the Printer's _writer is null from here on
AppDisconnect ==
  /\ dtask = 0
  /\ printer # 0
  /\ writerOf' = [ writerOf EXCEPT ![printer] = FALSE ]
  /\ dtask' = printer
  /\ UNCHANGED << printer, connectedFlag, printers, ctask, lastPrint, notAppVars >>

\* Printer.disconnect() returned: printer = null; connected = false
AppDisconnectDone ==
  /\ dtask # 0
  /\ printer' = 0
  /\ connectedFlag' = FALSE
  /\ dtask' = 0
  /\ UNCHANGED << printers, writerOf, ctask, lastPrint, notAppVars >>

\* printModel(model) / testPrint(): the isConnected() check, the compile,
\* and printer.send(frames) with its own check of _writer
AppPrint(op) ==
  /\ lastPrint' = [ op |-> op,
                    outcome |-> IF ~isConnected THEN "Error"
                                ELSE IF ~writerOf[printer] THEN "ConnectionError"
                                ELSE "written" ]
  /\ UNCHANGED << printer, connectedFlag, printers, writerOf, ctask, dtask, notAppVars >>

(***************************************************************************)
(* Programs: the games compile() and start() are run on.                   *)
(***************************************************************************)
MaxBlocks   == 2        \* blocks of the section under validation
MaxSections == 3        \* sections of a program of the ordering family
MaxFlow     == 2        \* entries of its flow
MaxLines    == 4        \* maxLines of a dynamic section
DEFAULT_SPEED    == 10000
DEFAULT_MAXLINES == 2000

SeqsUpTo(S, n) == UNION { [1..k -> S] : k \in 0..n }

StaticSection(id, feedMode, blocks) ==
  WithBlocks(Section(id, feedMode, DEFAULT_SPEED, DEFAULT_MAXLINES), blocks)

DynamicSection(id, maxLines, blocks, g, e, enter, exit) ==
  WithGen(WithBlocks(Section(id, "auto", DEFAULT_SPEED, maxLines), blocks),
          g, e, enter, exit)

Sprite(id) == [ id |-> id, w |-> 8, h |-> 2, data |-> << 255, 129 >> ]

\* labels 1 and 7 are the ones sections may define; 8 is never defined
BlockSamples ==
  { Section_label(1),
    Section_jump(1), Section_jump(7),
    Section_jumpIfBtn(0, 1), Section_jumpIfBtn(1, 7),
    Section_jumpIfVar(0, 0, 300, 1), Section_jumpIfVar(0, 1, 300, 7),
    Section_jumpIfFader(1, 300, 1), Section_jumpIfFader(1, 300, 7),
    Section_randomJump(<< 1 >>), Section_randomJump(<< 1, 7 >>),
    Section_setVar(0, 300), Section_waitFader(0, 300), Section_setFeedMode(1),
    Section_text(0, << 79, 75 >>), Section_feed(10) }

OtherSectionBlocks ==
  { << >>, << Section_label(7) >>, << Section_jump(8) >>, << Section_rect(0, 8, 8, 1) >> }

\* one section in the flow, one outside it
ProgramsLabels ==
  { Program(<< StaticSection(1, "auto", bs), StaticSection(2, "elastic", other) >>,
            << 1 >>, << >>) :
      bs \in SeqsUpTo(BlockSamples, MaxBlocks), other \in OtherSectionBlocks }

ModeOf(i) == IF i % 3 = 1 THEN "auto" ELSE IF i % 3 = 2 THEN "elastic" ELSE "precise"

\* n sections each feeding its own number of lines, any flow over the ids
\* 1..n+1 (n+1 names no section), up to two sprites, and a mark that makes
\* the program branching or not
ProgramsOrder ==
  { Program([ i \in 1..n |->
                StaticSection(i, ModeOf(i),
                              << Section_feed(i) >> \o (IF i = n THEN mark ELSE << >>)) ],
            fl, [ k \in 1..ns |-> Sprite(k) ]) :
      n \in 1..MaxSections, fl \in SeqsUpTo(1..(MaxSections + 1), MaxFlow),
      ns \in 0..2,
      mark \in { << >>, << Section_setVar(0, 1) >>, << Section_sprite(1, 0, 0) >> } }

Draws == { "none", "bar", "dot", "count", "emit" }

\* one dynamic section: every drawing, with done() on some line or never
ProgramsDraw ==
  { Program(<< DynamicSection(1, m, << >>, Gen(d, doneAt, -1, speedAt), NoFn, NoFn, NoFn) >>,
            << 1 >>, << >>) :
      m \in 1..MaxLines, d \in Draws, doneAt \in { -1, 1 }, speedAt \in { -1, 0 } }

\* one dynamic section: every way its loop ends
ProgramsStop ==
  { Program(<< DynamicSection(1, m, << >>, Gen("bar", doneAt, gotoAt, -1), e, enter, exit) >>,
            << 1 >>, << >>) :
      m \in 1..MaxLines, doneAt \in { -1, 0, 2 }, gotoAt \in { -1, 1 },
      e \in { NoFn, EndAt(0), EndAt(2) },
      enter \in { NoFn, Hook, HookDone }, exit \in { NoFn, Hook } }

ProgramsLong ==
  { Program(<< DynamicSection(1, 100, << >>, Gen("dot", 3, -1, -1),
                              e, enter, NoFn) >>, << 1 >>, << >>) :
      e \in { NoFn, EndAt(5) }, enter \in { NoFn, HookDone } }

\* a static and a dynamic section; the dynamic one may hold a label block
ProgramsMixed ==
  { Program(<< StaticSection(1, "auto", bs),
               DynamicSection(2, 2, dbs, Gen("count", doneAt, -1, -1), NoFn, enter, NoFn) >>,
            fl, << >>) :
      bs \in { << Section_feed(1) >>, << Section_jump(1) >>, << Section_jump(7) >> },
      dbs \in { << >>, << Section_label(1) >> },
      doneAt \in { -1, 0 }, enter \in { NoFn, Hook },
      fl \in { << 1 >>, << 1, 2 >>, << 2, 1 >>, << 2, 2 >> } }

\* a static section whose image makes the stream longer than one chunk
ProgramImage ==
  Program(<< StaticSection(1, "auto",
               << Section_image([ r \in 1..60 |->
                                    [ i \in 1..BPL |-> IF i % 2 = 0 THEN 170 ELSE 85 ] ]) >>) >>,
          << 1 >>, << >>)

\* one section holding text(0, "OK") and feed(10), in each feed mode
ProgramsOne ==
  { Program(<< WithBlocks(Section(1, mode, speed, DEFAULT_MAXLINES),
                          << Section_text(0, << 79, 75 >>), Section_feed(10) >>) >>,
            << 1 >>, << >>) :
      mode \in { "auto", "elastic", "precise" }, speed \in { DEFAULT_SPEED, 300 } }

\* labels defined once, twice in one section, or in two sections, and referred
\* to; the flow names the first section once or twice
ProgramsDup ==
  { Program(<< StaticSection(1, "auto", bs), StaticSection(2, "auto", other) >>,
            fl, << >>) :
      fl \in { << 1 >>, << 1, 1 >> },
      bs \in { << Section_label(1), Section_jump(1) >>,
               << Section_label(1), Section_label(1), Section_jump(1) >>,
               << Section_label(7), Section_randomJump(<< 7, 7 >>) >>,
               << Section_label(1), Section_label(1), Section_feed(1) >> },
      other \in { << >>, << Section_label(7) >>, << Section_label(1) >> } }

\* an image whose rows are of one width, 72 bytes or not
ProgramsImage ==
  { Program(<< StaticSection(1, "auto",
                 << Section_image([ r \in 1..2 |->
                                      [ i \in 1..w |-> IF i <= k THEN 255 ELSE i % 256 ] ]) >>) >>,
            << 1 >>, << >>) :
      w \in { 0, 71, 72, 73 }, k \in { 0, 60, 72 } }

\* a dynamic section in each feed mode, alone or after a static one
ProgramsSetup ==
  { Program(<< StaticSection(1, m1, << Section_feed(1) >>),
               WithGen(Section(2, m2, speed, 2), Gen("bar", -1, -1, -1), NoFn, NoFn, NoFn) >>,
            fl, << >>) :
      m1 \in { "auto", "precise" }, m2 \in { "auto", "elastic", "precise" },
      speed \in { DEFAULT_SPEED, 300 }, fl \in { << 2 >>, << 1, 2 >> } }

Programs ==
  ProgramsLabels \cup ProgramsOrder \cup ProgramsDraw \cup ProgramsStop
    \cup ProgramsLong \cup ProgramsMixed \cup ProgramsOne \cup ProgramsDup
    \cup ProgramsImage \cup ProgramsSetup

ProgramsStart ==
  ProgramsMixed \cup { ProgramImage }
    \cup { p \in ProgramsOrder : Len(p.sections) = 1 /\ Len(p.sprites) = 0 }

(***************************************************************************)
(* Specifications of the Game: compile() alone, and start().               *)
(***************************************************************************)
Init ==
  /\ \E prog \in Programs : GameBuilt(prog)
  /\ call = NoCall
  /\ ret = NoRet

Next ==
  \/ CompileBegin
  \/ CompileFlowSection
  \/ CompileRestSection
  \/ DynLine
  \/ DynExit
  \/ CompileEnd

Spec == Init /\ [][Next]_allVars

NextTwice ==
  \/ CompileBegin
  \/ CompileFlowSection
  \/ CompileRestSection
  \/ DynLine
  \/ DynExit
  \/ CompileEnd
  \/ CompileAgain

SpecTwice == Init /\ [][NextTwice]_allVars

InitStart ==
  /\ \E prog \in ProgramsStart : GameBuilt(prog)
  /\ call = NoCall
  /\ ret = NoRet

NextStart ==
  \/ Connect
  \/ CompileBegin
  \/ StartRejected
  \/ StartBegin
  \/ CompileFlowSection
  \/ CompileRestSection
  \/ DynLine
  \/ DynExit
  \/ CompileEnd
  \/ StartThrow
  \/ SendChunk
  \/ SendFail
  \/ StartDone
  \/ Stop

SpecStart == InitStart /\ [][NextStart]_allVars

InitXfer ==
  /\ GameNew
  /\ call = NoCall
  /\ ret = NoRet

NextXfer ==
  \/ XConnect
  \/ XDisconnect
  \/ \E s \in SenderIds, n \in StreamLens : CallSend(s, n)
  \/ \E s \in SenderIds, n \in StreamLens : CallSendChunked(s, n)
  \/ \E k \in 1..Cardinality(SenderIds) : WriteResolve(k)
  \/ \E k \in 1..Cardinality(SenderIds) : WriteReject(k)

SpecXfer == InitXfer /\ [][NextXfer]_allVars

NextRead ==
  \/ RConnectBegin
  \/ ROpenResolve
  \/ ROpenReject
  \/ RDisconnect
  \/ RCloseSettle
  \/ \E k \in 1..MaxOpens : ReadValue(k)
  \/ \E k \in 1..MaxOpens : ReadEnd(k)

SpecRead == InitXfer /\ [][NextRead]_allVars

NextApp ==
  \/ AppConnect
  \/ AppConnectResolve
  \/ AppConnectReject
  \/ AppDisconnect
  \/ AppDisconnectDone
  \/ \E op \in { "printModel", "testPrint" } : AppPrint(op)

SpecApp == InitXfer /\ [][NextApp]_allVars

(***************************************************************************)
(* The PGP static methods called directly, on inputs drawn from bounded    *)
(* sets.                                                                   *)
(***************************************************************************)
MaxPayloadLen == 3
ByteSamples == {0, 1, 128, 255}
CmdSamples  == {CMD.RAW_LINE, CMD.STOP, CMD.LABEL, 255}
\* payload lengths that need the high byte of the length field
LongLens    == {255, 256, 257, 513}
U16Samples  == {0, 1, 255, 256, 258, 4660, 65280, 65535}
OpSamples   == {0, 5}
LineBytes   == {0, 85, 255}
\* widths other than BPL
BadWidths   == {0, 71, 73}

LongPayload(n) == [ i \in 1..n |-> (i * 7) % 256 ]
Payloads ==
  UNION { [1..n -> ByteSamples] : n \in 0..MaxPayloadLen }
    \cup { LongPayload(n) : n \in LongLens }

\* among the first k bytes those at positions of parity par are b; all other
\* bytes are a
AltLine(w, k, a, b, par) ==
  [ i \in 1..w |-> IF i <= k /\ i % 2 = par THEN b ELSE a ]
\* runs of r bytes, alternating a and b
RunLine(w, r, a, b) ==
  [ i \in 1..w |-> IF ((i - 1) \div r) % 2 = 0 THEN a ELSE b ]
Lines ==
  { AltLine(BPL, k, a, b, par) :
      k \in 0..BPL, a \in LineBytes, b \in LineBytes, par \in {0, 1} }
    \cup { RunLine(BPL, r, a, b) : r \in 1..BPL, a \in LineBytes, b \in LineBytes }
    \cup { AltLine(w, k, 0, 255, 0) : w \in BadWidths, k \in {0, 71} }

\* strings as code points: empty, "OK", a box-drawing character, the code
\* points around the ranges of hasCJK, kana, ideographs, "O" then a kana
TextSamples ==
  { << >>, << 79, 75 >>, << 9472, 33 >>, << 12351 >>, << 12352 >>, << 12354 >>,
    << 12450 >>, << 12543 >>, << 12544 >>, << 13312 >>, << 19968 >>, << 26085, 26412 >>,
    << 40959 >>, << 40960 >>, << 65381 >>, << 65440 >>, << 79, 12354 >> }
MaxSizeMm == 17        \* text sizes asked for, in mm

Call(op, args) == [ op |-> op, args |-> args ]

InitPGP ==
  /\ GameNew
  /\ ret = NoRet
  /\ \/ call \in { Call("frame", << c, p >>) : c \in CmdSamples, p \in Payloads }
     \/ call \in { Call(op, << l >>) : op \in {"rleEncode", "rawLineRle"}, l \in Lines }
     \/ call \in { Call(op, << v >>) :
                     op \in {"label", "jump", "setSpeed", "setHeat", "feed"},
                     v \in U16Samples }
     \/ call \in { Call("jumpIfBtn", << m, v >>) : m \in {0, 1, BTN_ANY}, v \in U16Samples }
     \/ call \in { Call("randomJump", << ids >>) :
                     ids \in UNION { [1..n -> {1, 258, 65280}] : n \in 0..2 } }
     \/ call \in { Call("setVar", << i, v >>) : i \in OpSamples, v \in U16Samples }
     \/ call \in { Call("jumpIfVar", << i, o, v, l >>) :
                     i \in OpSamples, o \in OpSamples, v \in U16Samples, l \in U16Samples }
     \/ call \in { Call("jumpIfFader", << o, t, l >>) :
                     o \in OpSamples, t \in U16Samples, l \in U16Samples }
     \/ call \in { Call("waitFader", << o, t >>) : o \in OpSamples, t \in U16Samples }
     \/ call \in { Call("fillLine", << p, c >>) : p \in ByteSamples, c \in U16Samples }
     \/ call \in { Call("rect", << x, w, h >>) :
                     x \in U16Samples, w \in U16Samples, h \in {1, 258} }
     \/ call \in { Call("spriteDraw", << i, x, y >>) :
                     i \in OpSamples, x \in U16Samples, y \in U16Samples }
     \/ call \in { Call("text", << x, y, s >>) :
                     x \in U16Samples, y \in U16Samples, s \in { << >>, << 79, 75 >> } }
     \/ call \in { Call("encodeFontByte", << b, sc >>) : b \in 0..2, sc \in 1..15 }
     \/ call \in { Call("sectionText", << f, str >>) : f \in 0..3, str \in TextSamples }
     \/ call \in { Call("sectionTextSize", << mm, str >>) :
                     mm \in 0..MaxSizeMm, str \in TextSamples }
     \/ call \in { Call("sectionTextDefault", << str >>) : str \in TextSamples }

Apply(c) ==
  LET a == c.args IN
  CASE c.op = "frame"       -> frame(a[1], a[2])
    [] c.op = "rleEncode"   -> PGP_rleEncode(a[1])
    [] c.op = "rawLineRle"  -> PGP_rawLineRle(a[1])
    [] c.op = "label"       -> PGP_label(a[1])
    [] c.op = "jump"        -> PGP_jump(a[1])
    [] c.op = "jumpIfBtn"   -> PGP_jumpIfBtn(a[1], a[2])
    [] c.op = "randomJump"  -> PGP_randomJump(a[1])
    [] c.op = "setVar"      -> PGP_setVar(a[1], a[2])
    [] c.op = "jumpIfVar"   -> PGP_jumpIfVar(a[1], a[2], a[3], a[4])
    [] c.op = "jumpIfFader" -> PGP_jumpIfFader(a[1], a[2], a[3])
    [] c.op = "waitFader"   -> PGP_waitFader(a[1], a[2])
    [] c.op = "setSpeed"    -> PGP_setSpeed(a[1])
    [] c.op = "setHeat"     -> PGP_setHeat(a[1])
    [] c.op = "feed"        -> PGP_feed(a[1])
    [] c.op = "fillLine"    -> PGP_fillLine(a[1], a[2])
    [] c.op = "rect"        -> PGP_rect(a[1], 0, a[2], a[3], 1)
    [] c.op = "spriteDraw"  -> PGP_spriteDraw(a[1], a[2], a[3])
    [] c.op = "text"        -> PGP_text(a[1], a[2], 2, a[3])
    [] c.op = "encodeFontByte" -> << encodeFontByte(a[1], a[2]) >>
    [] c.op = "sectionText" -> _blockToPGP(Section_textFont(0, a[2], a[1]))[1]
    [] c.op = "sectionTextSize" -> _blockToPGP(Section_textSize(0, a[2], a[1]))[1]
    [] c.op = "sectionTextDefault" -> _blockToPGP(Section_text(0, a[1]))[1]

Invoke(ops) ==
  /\ call.op \in ops
  /\ ret = NoRet
  /\ ret' = Apply(call)
  /\ UNCHANGED << call, gameVars, xferVars, extVars >>

CallFrame      == Invoke({"frame"})
CallRleEncode  == Invoke({"rleEncode"})
CallRawLineRle == Invoke({"rawLineRle"})
CallBranching  == Invoke({"label", "jump", "jumpIfBtn", "randomJump", "setVar",
                          "jumpIfVar", "jumpIfFader", "waitFader"})
CallGeneral    == Invoke({"setSpeed", "setHeat", "feed", "fillLine", "rect",
                          "spriteDraw", "text"})
\* encodeFontByte, and section.text(0, str, { font: f }) compiled to its frame
CallFont       == Invoke({"encodeFontByte", "sectionText", "sectionTextSize",
                          "sectionTextDefault"})

NextPGP ==
  \/ CallFont
  \/ CallFrame
  \/ CallRleEncode
  \/ CallRawLineRle
  \/ CallBranching
  \/ CallGeneral

SpecPGP == InitPGP /\ [][NextPGP]_allVars

\* PGP.frame alone, also on a payload one byte longer than the length field
\* can say
InitFrame ==
  /\ GameNew
  /\ ret = NoRet
  /\ call \in { Call("frame", << c, p >>) : c \in CmdSamples, p \in Payloads }
               \cup { Call("frame", << CMD.SPRITE_DEF, [ i \in 1..65536 |-> 0 ] >>) }

NextFrame == CallFrame

SpecFrame == InitFrame /\ [][NextFrame]_allVars

(***************************************************************************)
(* Reference definitions used by the properties below.                     *)
(***************************************************************************)
\* CRC-8 as polynomial division: the remainder of M(x) * x^8 by
\* x^8 + x^2 + x + 1, the message bits taken most significant first, the
\* register starting at 0 and the remainder taken as it is.
PolyBit(rem, bit) ==
  LET r == 2 * rem + bit
  IN  IF r >= 256
      THEN LET q == r - 256 IN q - (q % 8) + (7 - (q % 8))
      ELSE r

RECURSIVE PolyByte(_, _, _)
PolyByte(rem, byte, k) ==
  IF k = 0 THEN rem
  ELSE PolyByte(PolyBit(rem, (byte \div (2 ^ (k - 1))) % 2), byte, k - 1)

RECURSIVE PolyRange(_, _, _, _)
PolyRange(data, lo, hi, rem) ==
  IF lo > hi THEN rem
  ELSE IF lo = hi THEN PolyByte(rem, data[lo], 8)
  ELSE LET mid  == (lo + hi) \div 2
           left == PolyRange(data, lo, mid, rem)
       IN  CASE left \in 0..511 -> PolyRange(data, mid + 1, hi, left)

\* the message, then eight zero bits
PolyCrc(data) == PolyByte(PolyRange(data, 1, Len(data), 0), 0, 8)

FramePayload(f) == SubSeq(f, 5, Len(f) - 1)

\* the bytes a sequence of (count, value) pairs stands for
RECURSIVE RleExpand(_)
RleExpand(rle) ==
  IF Len(rle) < 2 THEN << >>
  ELSE [ i \in 1..rle[1] |-> rle[2] ] \o RleExpand(SubSeq(rle, 3, Len(rle)))

RECURSIVE RleCountSum(_)
RleCountSum(rle) ==
  IF Len(rle) < 2 THEN 0 ELSE rle[1] + RleCountSum(SubSeq(rle, 3, Len(rle)))

\* the number of maximal runs of equal bytes in a line
Runs(line) ==
  IF Len(line) = 0 THEN 0
  ELSE 1 + Cardinality({ i \in 1..(Len(line) - 1) : line[i] # line[i + 1] })

Returned(ops) == call.op \in ops /\ ret # NoRet

(***************************************************************************)
(* C6: PGP.frame(cmd, p), for a payload of at most 65535 bytes, returns    *)
(* 5 + len(p) bytes [0xE0][cmd][len low][len high][p][checksum], and the   *)
(* checksum is the CRC-8 (polynomial 0x07, initial value 0, most           *)
(* significant bit first, no final XOR) of the command, length and payload *)
(* bytes.                                                                  *)
(***************************************************************************)
C6_FrameLayout ==
  Returned({"frame"}) =>
    LET cmd == call.args[1]
        p   == call.args[2]
        n   == Len(p)
    IN  n <= 65535 =>
          /\ Len(ret) = 5 + n
          /\ ret[1] = 224
          /\ ret[2] = cmd
          /\ ret[3] = n % 256
          /\ ret[4] = n \div 256
          /\ SubSeq(ret, 5, 4 + n) = p
          /\ ret[5 + n] = PolyCrc(SubSeq(ret, 2, 4 + n))

\* a frame whose payload length needs the high length byte has been built
C6_Witness ==
  /\ Returned({"frame"})
  /\ Len(call.args[2]) > 256
  /\ ret[4] > 0
  /\ ret[Len(ret)] # 0

U16Fields(c) ==
  LET a == c.args IN
  CASE c.op \in {"label", "jump", "setSpeed", "setHeat", "feed"} -> { << 0, a[1] >> }
    [] c.op \in {"jumpIfBtn", "setVar", "waitFader", "fillLine"} -> { << 1, a[2] >> }
    [] c.op = "randomJump"  -> { << 2 * i - 1, a[1][i] >> : i \in 1..Len(a[1]) }
    [] c.op = "jumpIfVar"   -> { << 2, a[3] >>, << 4, a[4] >> }
    [] c.op = "jumpIfFader" -> { << 1, a[2] >>, << 3, a[3] >> }
    [] c.op = "rect"        -> { << 0, a[1] >>, << 2, 0 >>, << 4, a[2] >>, << 6, a[3] >> }
    [] c.op = "spriteDraw"  -> { << 1, a[2] >>, << 3, a[3] >> }
    [] c.op = "text"        -> { << 0, a[1] >>, << 2, a[2] >> }
    [] OTHER                -> { }

BranchingOps == {"label", "jump", "jumpIfBtn", "randomJump", "setVar",
                 "jumpIfVar", "jumpIfFader", "waitFader"}
GeneralOps   == {"setSpeed", "setHeat", "feed", "fillLine", "rect",
                 "spriteDraw", "text"}

BigEndianAt(f, off, v) ==
  FramePayload(f)[off + 1] = v \div 256 /\ FramePayload(f)[off + 2] = v % 256
LittleEndianAt(f, off, v) ==
  FramePayload(f)[off + 1] = v % 256 /\ FramePayload(f)[off + 2] = v \div 256

C9_BranchingBigEndian ==
  /\ Returned(BranchingOps) =>
       \A fld \in U16Fields(call) : BigEndianAt(ret, fld[1], fld[2])
  /\ Returned(GeneralOps) =>
       \A fld \in U16Fields(call) : LittleEndianAt(ret, fld[1], fld[2])

(***************************************************************************)
(* Reference definitions for the compiler's properties: what a program     *)
(* says, read off its blocks, and what a stream holds, read off its bytes. *)
(***************************************************************************)
BlocksOfAll(secs) ==
  UNION { { secs[i].blocks[j] : j \in 1..Len(secs[i].blocks) } : i \in 1..Len(secs) }

LabelsDefinedBy(secs) == { b.id : b \in { c \in BlocksOfAll(secs) : c.type = "label" } }

\* the label ids the blocks of the given types refer to
LabelsReferredBy(secs, types) ==
  UNION { IF b.type = "randomJump"
          THEN { b.labelIds[k] : k \in 1..Len(b.labelIds) }
          ELSE { b.labelId } :
          b \in { c \in BlocksOfAll(secs) : c.type \in types } }

BranchTypes  == { "jump", "jumpIfBtn", "jumpIfVar", "randomJump", "jumpIfFader" }
CheckedTypes == { "jump", "jumpIfBtn", "jumpIfVar", "randomJump" }
MarkerTypes  == { "label", "jump", "jumpIfBtn", "randomJump", "setVar", "jumpIfVar",
                  "jumpIfFader", "waitFader", "setFeedMode" }

IsBranchingProgram == \E b \in BlocksOfAll(sections) : b.type \in MarkerTypes

\* the frames of a byte stream, each read by its length field
RECURSIVE ParseFrom(_, _)
ParseFrom(bytes, i) ==
  IF i > Len(bytes) THEN << >>
  ELSE IF i + 4 > Len(bytes) \/ bytes[i] # SYNC
       THEN << [ cmd |-> -1, payload |-> << >> ] >>
       ELSE LET len == bytes[i + 2] + 256 * bytes[i + 3]
            IN  << [ cmd |-> bytes[i + 1], payload |-> SubSeq(bytes, i + 4, i + 3 + len) ] >>
                  \o ParseFrom(bytes, i + 5 + len)
FramesOf(bytes) == ParseFrom(bytes, 1)

CountCmd(fs, cmd) == Cardinality({ i \in 1..Len(fs) : fs[i].cmd = cmd })

(***************************************************************************)
(* C1: compile() of a branching program fails with a compile error         *)
(* whenever a branch-type block of any section (jump, jump-if-button,      *)
(* jump-if-variable, random-jump, jump-if-fader) refers to a label id that *)
(* no label block of any section defines, and succeeds when every label    *)
(* id referred to is defined.                                              *)
(***************************************************************************)
C1_UndefinedLabelFails ==
  (pc # "idle" /\ IsBranchingProgram) =>
     (pc = "failed" <=>
        ~(LabelsReferredBy(sections, BranchTypes) \subseteq LabelsDefinedBy(sections)))

(***************************************************************************)
(* C2: when label validation fails, compile() yields no byte stream, no    *)
(* callback of a dynamic section has run (the variable table is as it      *)
(* was), no frame has been built and start() writes nothing to the         *)
(* transport.                                                              *)
(***************************************************************************)
ValidationFails ==
  ~(LabelsReferredBy(sections, CheckedTypes) \subseteq LabelsDefinedBy(sections))

C2_FailedValidationEmitsNothing ==
  (ValidationFails /\ pc # "idle") =>
     /\ pc \in { "failed", "thrown", "rejected" }
     /\ out = NoRet
     /\ frames = << >>
     /\ emitted = << >>
     /\ genCalls = 0
     /\ vars = NoVars
     /\ written = << >>

\* start() on a connected printer threw the compile error of a program whose
\* flow begins with a dynamic section with an enter hook
C2_Witness ==
  /\ pc = "thrown"
  /\ connected
  /\ ValidationFails
  /\ flow # << >>
  /\ \E i \in 1..Len(sections) :
        /\ sections[i].id = flow[1]
        /\ sections[i].onLine.fn # "none"
        /\ sections[i].onEnter.fn # "none"

(***************************************************************************)
(* C3: the compiled stream begins with exactly one PROGRAM_START frame and *)
(* ends with exactly one PROGRAM_END frame if and only if some block of    *)
(* some section, in the flow or not, has one of the nine branching types;  *)
(* otherwise it holds neither marker frame.                                *)
(***************************************************************************)
C3_MarkersIffBranching ==
  pc = "compiled" =>
     LET fs == FramesOf(out)
     IN  IF IsBranchingProgram
         THEN /\ fs[1].cmd = CMD.PROGRAM_START
              /\ fs[Len(fs)].cmd = CMD.PROGRAM_END
              /\ CountCmd(fs, CMD.PROGRAM_START) = 1
              /\ CountCmd(fs, CMD.PROGRAM_END) = 1
         ELSE /\ CountCmd(fs, CMD.PROGRAM_START) = 0
              /\ CountCmd(fs, CMD.PROGRAM_END) = 0

\* a stream with both markers whose only branching block sits in a section
\* the flow does not name
C3_Witness ==
  /\ pc = "compiled"
  /\ IsBranchingProgram
  /\ \A i \in 1..Len(sections) :
        (\E k \in 1..Len(flow) : flow[k] = sections[i].id) =>
           \A j \in 1..Len(sections[i].blocks) :
              sections[i].blocks[j].type \notin MarkerTypes
  /\ FramesOf(out)[1].cmd = CMD.PROGRAM_START

(***************************************************************************)
(* C4: a branching program has the frames of every section of the table    *)
(* emitted, the sections the flow names first, in flow order, then the     *)
(* remaining sections in table order; a non-branching program has only the *)
(* sections the flow names emitted, in flow order.                         *)
(***************************************************************************)
InTable(id) == \E i \in 1..Len(sections) : sections[i].id = id
TableIds == [ i \in 1..Len(sections) |-> sections[i].id ]
FlowSections == SelectSeq(flow, InTable)
NotInFlow(id) == \A k \in 1..Len(flow) : flow[k] # id
ExpectedOrder ==
  IF IsBranchingProgram THEN FlowSections \o SelectSeq(TableIds, NotInFlow)
  ELSE FlowSections

\* every section is static and made of one FEED of as many lines as its id,
\* possibly followed by blocks that are not feeds
FeedTagged ==
  \A i \in 1..Len(sections) :
     /\ sections[i].onLine.fn = "none"
     /\ sections[i].blocks # << >>
     /\ sections[i].blocks[1] = Section_feed(sections[i].id)
     /\ \A j \in 2..Len(sections[i].blocks) : sections[i].blocks[j].type # "feed"

\* the line counts of the FEED frames of a stream, in order
FeedLines(fs) ==
  LET feeds == SelectSeq(fs, LAMBDA f : f.cmd = CMD.FEED)
  IN  [ k \in 1..Len(feeds) |-> feeds[k].payload[1] + 256 * feeds[k].payload[2] ]

C4_SectionOrder ==
  pc = "compiled" =>
     /\ emitted = ExpectedOrder
     /\ IsBranchingProgram => \A i \in 1..Len(sections) :
           \E k \in 1..Len(emitted) : emitted[k] = sections[i].id
     /\ FeedTagged => FeedLines(FramesOf(out)) = ExpectedOrder \o << 16 >>

\* a branching program of three sections whose flow names the third only
C4_Witness ==
  /\ pc = "compiled"
  /\ IsBranchingProgram
  /\ FeedTagged
  /\ Len(sections) = 3
  /\ flow = << 3 >>
  /\ FeedLines(FramesOf(out)) = << 3, 1, 2, 16 >>

(***************************************************************************)
(* C5: in every compiled stream the frames come in the order PROGRAM_START *)
(* (if branching), one SPRITE_DEF per defined sprite in table order, the   *)
(* section frames, FEED(16), STOP, PROGRAM_END (if branching): no          *)
(* SPRITE_DEF follows a section frame and no section frame follows the     *)
(* trailer.                                                                *)
(***************************************************************************)
C5_FrameOrder ==
  pc = "compiled" =>
     LET fs   == FramesOf(out)
         b    == IF IsBranchingProgram THEN 1 ELSE 0
         ns   == Len(sprites)
         last == Len(fs) - b
     IN  /\ Len(fs) >= b + ns + 2 + b
         /\ b = 1 => fs[1].cmd = CMD.PROGRAM_START /\ fs[Len(fs)].cmd = CMD.PROGRAM_END
         /\ \A k \in 1..ns :
               /\ fs[b + k].cmd = CMD.SPRITE_DEF
               /\ fs[b + k].payload[1] = sprites[k].id
         /\ fs[last - 1].cmd = CMD.FEED
         /\ fs[last - 1].payload = << 16, 0 >>
         /\ fs[last].cmd = CMD.STOP
         /\ \A k \in (b + ns + 1)..(last - 2) :
               fs[k].cmd \notin { CMD.SPRITE_DEF, CMD.STOP, CMD.PROGRAM_START,
                                  CMD.PROGRAM_END }

\* a branching stream with two sprite definitions and frames of two sections
C5_Witness ==
  /\ pc = "compiled"
  /\ IsBranchingProgram
  /\ Len(sprites) = 2
  /\ Len(emitted) >= 2
  /\ Len(FramesOf(out)) >= 1 + 2 + 4 + 3

(***************************************************************************)
(* C10: a dynamic section with maximum line count M produces min(M, k + 1) *)
(* raster lines, k being the first line index at which the generator calls *)
(* done() or goto() or at which the end condition holds after the line     *)
(* (no such index: M lines); a generator calling done() on line index 3    *)
(* with M = 100 yields exactly 4 lines.                                    *)
(***************************************************************************)
\* the line indices at which the generator or the end condition of the
\* section stops the loop
StopIndices(sec) ==
  { n \in { sec.onLine.doneAt, sec.onLine.gotoAt } : n >= 0 }
    \cup (IF sec.endCondition.fn # "none" THEN { Max(0, sec.endCondition.endAt) } ELSE { })

ExpectedLines(sec) ==
  IF StopIndices(sec) = { } THEN sec.maxLines
  ELSE Min(sec.maxLines,
           (CHOOSE n \in StopIndices(sec) : \A o \in StopIndices(sec) : n <= o) + 1)

\* _runDynamic has left its loop
LoopLeft == pc = "dynBreak" \/ (pc = "dyn" /\ dynI >= sections[dynIndex].maxLines)

C10_LineCount == LoopLeft => Len(scanlines) = ExpectedLines(sections[dynIndex])

(***************************************************************************)
(* C11: a program with one non-branching section holding text(0, "OK") and *)
(* feed(10) compiles to a stream whose frames are, in order and with no    *)
(* other frame, the TEXT frame for "OK", FEED 10, FEED(16) and STOP, each  *)
(* with a valid checksum.                                                  *)
(***************************************************************************)
\* every frame of the stream ends with the CRC-8 of its command, length and
\* payload bytes
RECURSIVE ChecksumsFrom(_, _)
ChecksumsFrom(bytes, i) ==
  IF i > Len(bytes) THEN TRUE
  ELSE IF i + 4 > Len(bytes) \/ bytes[i] # SYNC THEN FALSE
  ELSE LET len == bytes[i + 2] + 256 * bytes[i + 3]
       IN  /\ i + 4 + len <= Len(bytes)
           /\ bytes[i + 4 + len] = PolyCrc(SubSeq(bytes, i + 1, i + 3 + len))
           /\ ChecksumsFrom(bytes, i + 5 + len)
ChecksumsValid(bytes) == ChecksumsFrom(bytes, 1)

IsOkProgram ==
  /\ Len(sections) = 1
  /\ sections[1].onLine.fn = "none"
  /\ sections[1].blocks = << Section_text(0, << 79, 75 >>), Section_feed(10) >>
  /\ flow = << sections[1].id >>
  /\ sprites = << >>

OkFrames ==
  << [ cmd |-> CMD.TEXT, payload |-> << 0, 0, 0, 0, 2, 2, 79, 75 >> ],
     [ cmd |-> CMD.FEED, payload |-> << 10, 0 >> ],
     [ cmd |-> CMD.FEED, payload |-> << 16, 0 >> ],
     [ cmd |-> CMD.STOP, payload |-> << >> ] >>

\* the frames that set a section up: SET_SPEED with the section's speed in
\* auto mode, SET_MODE with the mode number otherwise
SetupOf(sec) ==
  IF sec.feedMode = "auto"
  THEN << [ cmd |-> CMD.SET_SPEED, payload |-> << sec.speed % 256, sec.speed \div 256 >> ] >>
  ELSE << [ cmd |-> CMD.SET_MODE,
            payload |-> << IF sec.feedMode = "elastic" THEN 1 ELSE 2 >> ] >>

\* the claim as stated: the four frames and no other
C11_OkProgramFrames ==
  (pc = "compiled" /\ IsOkProgram) =>
     FramesOf(out) = OkFrames /\ ChecksumsValid(out)

\* the claim as amended: the four frames follow the section's setup frame
C11_OkProgramFramesAfterSetup ==
  (pc = "compiled" /\ IsOkProgram) =>
     FramesOf(out) = SetupOf(sections[1]) \o OkFrames /\ ChecksumsValid(out)

C11_Witness ==
  /\ pc = "compiled"
  /\ IsOkProgram
  /\ sections[1].feedMode = "auto"
  /\ Len(FramesOf(out)) = 5

(***************************************************************************)
(* C12: at most one write is outstanding on a connection at any time:      *)
(* whatever the interleaving of the send operations on one Printer, no     *)
(* write is handed to the serial writer while an earlier write on that     *)
(* connection has not completed.                                           *)
(***************************************************************************)
C12_OneOutstandingWrite ==
  \A j \in 1..Len(inflight), k \in 1..Len(inflight) :
     j # k => inflight[j].conn # inflight[k].conn

(***************************************************************************)
(* C13: every delivery of a compiled stream to the device (Game.start,     *)
(* printModel, testPrint) is a sequence of writes of at most 4096 bytes    *)
(* each, issued in stream order, and the written chunks put together are   *)
(* the stream.                                                             *)
(***************************************************************************)
WritesOf(s) == SelectSeq(wire, LAMBDA w : w.sender = s)

C13_BoundedOrderedWrites ==
  \A s \in SenderIds :
     LET ws == WritesOf(s) IN
     /\ \A k \in 1..Len(ws) : ws[k].to - ws[k].from <= CHUNK
     /\ \A k \in 1..Len(ws) : ws[k].from = (IF k = 1 THEN 0 ELSE ws[k - 1].to)
     /\ senders[s].st = "ok" => ws # << >> /\ ws[Len(ws)].to = senders[s].len

(***************************************************************************)
(* C14: a chunked send in progress when disconnect() is called completes   *)
(* or fails and is never continued on a later connection: no chunk of the  *)
(* stream is written to a connection opened after the one it started on.   *)
(***************************************************************************)
C14_SendStaysOnItsConnection ==
  \A s \in SenderIds :
     LET ws == WritesOf(s) IN
     \A k \in 1..Len(ws) : ws[k].conn = ws[1].conn

(***************************************************************************)
(* C15: when a write fails in the middle of a chunked send, the error the  *)
(* caller gets says how many bytes were confirmed sent before the failure, *)
(* and no chunk is written after the failing one.                          *)
(***************************************************************************)
C15_FailureReportsProgress ==
  \A s \in SenderIds :
     (senders[s].op = "sendChunked" /\ senders[s].st = "err"
        /\ senders[s].err.name = "WriteError") =>
        /\ \A k \in 1..Len(inflight) : inflight[k].sender # s
        /\ WritesOf(s)[Len(WritesOf(s))].from = senders[s].i
        /\ "confirmed" \in DOMAIN senders[s].err
        /\ senders[s].err.confirmed = senders[s].i

(***************************************************************************)
(* C16: compilation succeeds only if every label id referred to has        *)
(* exactly one definition in the whole program: a program in which a       *)
(* label id referred to is defined by two or more label blocks, in one     *)
(* section or in several, does not compile.                                *)
(***************************************************************************)
DefinitionsOf(id) ==
  { << i, j >> \in (1..Len(sections)) \X (1..4) :
      /\ j <= Len(sections[i].blocks)
      /\ sections[i].blocks[j].type = "label"
      /\ sections[i].blocks[j].id = id }

ReferredTwiceDefined ==
  \E id \in LabelsReferredBy(sections, BranchTypes) : Cardinality(DefinitionsOf(id)) >= 2

C16_DuplicateLabelFails ==
  (pc # "idle" /\ ReferredTwiceDefined) => pc = "failed"

(***************************************************************************)
(* C17: when label validation fails, the one error raised lists one entry  *)
(* for every undefined label reference of the program - every offending    *)
(* block of every section, every undefined id of a random-jump list - each *)
(* naming the section and the label id: validation does not stop at the    *)
(* first violation.                                                        *)
(***************************************************************************)
RefsOfBlock(b) ==
  IF b.type = "randomJump" THEN b.labelIds ELSE << b.labelId >>

\* the references (section index, block index, position in the block's list)
\* of blocks of the given types to labels no block defines
UndefinedRefs(types) ==
  { r \in (1..Len(sections)) \X (1..4) \X (1..2) :
      /\ r[2] <= Len(sections[r[1]].blocks)
      /\ sections[r[1]].blocks[r[2]].type \in types
      /\ r[3] <= Len(RefsOfBlock(sections[r[1]].blocks[r[2]]))
      /\ RefsOfBlock(sections[r[1]].blocks[r[2]])[r[3]] \notin LabelsDefinedBy(sections) }

RefSection(r) == sections[r[1]].id
RefLabel(r)   == RefsOfBlock(sections[r[1]].blocks[r[2]])[r[3]]

ErrorsListExactly(refs) ==
  /\ Len(errors) = Cardinality(refs)
  /\ \A r \in refs :
        Cardinality({ n \in 1..Len(errors) :
                        errors[n].section = RefSection(r) /\ errors[n].label = RefLabel(r) })
          = Cardinality({ q \in refs : RefSection(q) = RefSection(r) /\ RefLabel(q) = RefLabel(r) })

C17_AllViolationsListed ==
  pc = "failed" => ErrorsListExactly(UndefinedRefs(BranchTypes))

(***************************************************************************)
(* C18: PGP.frame never returns a frame for a payload longer than 65535    *)
(* bytes, so the 16-bit length field of every frame it returns is the      *)
(* number of payload bytes of the frame.                                   *)
(***************************************************************************)
C18_LengthFieldIsPayloadLength ==
  Returned({"frame"}) =>
     /\ Len(call.args[2]) <= 65535
     /\ ret[3] + 256 * ret[4] = Len(ret) - 5

(***************************************************************************)
(* C19: a raster line that is not 72 bytes wide is never emitted: every    *)
(* RAW_LINE frame of a compiled stream carries 72 bytes and every          *)
(* RAW_LINE_RLE frame expands to 72 bytes; an image row of another width   *)
(* stops the compilation.                                                  *)
(***************************************************************************)
C19_RasterLinesAre72Wide ==
  pc = "compiled" =>
     LET fs == FramesOf(out) IN
     \A k \in 1..Len(fs) :
        /\ fs[k].cmd = CMD.RAW_LINE => Len(fs[k].payload) = BPL
        /\ fs[k].cmd = CMD.RAW_LINE_RLE => RleCountSum(fs[k].payload) = BPL

(***************************************************************************)
(* C20: encodeFontByte(baseFont, scale), baseFont in 0..2 and scale in     *)
(* 1..15, returns the legacy byte (0: 5x7 x1, 1: 5x7 x2, 2: 8x16 x1,       *)
(* 3: 8x16 x2) exactly when baseFont <= 1 and scale <= 2, and the extended *)
(* byte (scale << 2) | baseFont otherwise; hence a text block without CJK  *)
(* characters made with the legacy font index f in 0..3 is emitted with    *)
(* font byte f.                                                            *)
(***************************************************************************)
LegacyByte(baseFont, scale) ==
  CASE baseFont = 0 /\ scale = 1 -> 0
    [] baseFont = 0 /\ scale = 2 -> 1
    [] baseFont = 1 /\ scale = 1 -> 2
    [] baseFont = 1 /\ scale = 2 -> 3

C20_FontByte ==
  /\ Returned({"encodeFontByte"}) =>
       LET b  == call.args[1]
           sc == call.args[2]
       IN  IF b <= 1 /\ sc <= 2
           THEN ret[1] = LegacyByte(b, sc)
           ELSE ret[1] >= 4 /\ ret[1] \div 4 = sc /\ ret[1] % 4 = b
  /\ (Returned({"sectionText"}) /\ ~hasCJK(call.args[2])) =>
       /\ ret[2] = CMD.TEXT
       /\ ret[9] = call.args[1]

\* the text block "OK" made with font index 3 (8x16 x2) was emitted with
\* font byte 3
C20_Witness ==
  /\ Returned({"sectionText"})
  /\ call.args = << 3, << 79, 75 >> >>
  /\ ret[9] = 3

(***************************************************************************)
(* C21: a text block whose string holds a Hiragana, Katakana or CJK        *)
(* ideograph character is emitted with a font byte in the extended layout  *)
(* that names base font 2 (Misaki), whatever base font or size was asked   *)
(* for; when a size was asked for, the scale is that size in dots over the *)
(* 8-pixel base, rounded and clamped to 1..15, otherwise the scale asked   *)
(* for.  A text block without such a character is emitted with the base    *)
(* font and scale asked for.                                               *)
(***************************************************************************)
IsKanaOrIdeograph(c) ==
  \/ c \in 12352..12447          \* Hiragana
  \/ c \in 12448..12543          \* Katakana
  \/ c \in 65381..65439          \* half-width Katakana
  \/ c \in 19968..40959          \* CJK unified ideographs
  \/ c \in 13312..19903          \* CJK extension A
NeedsMisaki(str) == \E i \in 1..Len(str) : IsKanaOrIdeograph(str[i])

Clamp(lo, hi, n) == IF n < lo THEN lo ELSE IF n > hi THEN hi ELSE n
\* n / d rounded to the nearest integer, halves up
Rounded(n, d) == CHOOSE q \in 0..(n + 1) : 2 * d * q <= 2 * n + d /\ 2 * n + d < 2 * d * (q + 1)

\* the base font and scale a font byte stands for
DecodeFont(byte) ==
  IF byte >= 4 THEN [ baseFont |-> byte % 4, scale |-> byte \div 4 ]
  ELSE [ baseFont |-> byte \div 2, scale |-> (byte % 2) + 1 ]

\* what the caller of section.text asked for
AskedFont ==
  CASE call.op = "sectionText" ->
         [ baseFont |-> IF call.args[1] \in {0, 1} THEN 0 ELSE 1,
           scale    |-> IF call.args[1] \in {1, 3} THEN 2 ELSE 1 ]
    [] call.op = "sectionTextSize" ->
         LET px == 8 * call.args[1] IN
         IF px >= 12 THEN [ baseFont |-> 1, scale |-> Clamp(1, 15, Rounded(px, 16)) ]
         ELSE [ baseFont |-> 0, scale |-> Clamp(1, 15, Rounded(px, 7)) ]
    [] OTHER -> [ baseFont |-> 1, scale |-> 1 ]

TextOps == { "sectionText", "sectionTextSize", "sectionTextDefault" }
TextString == call.args[Len(call.args)]

Generating == pc \in { "dyn", "dynBreak" }

C22_GotoExposed ==
  [][ (Generating /\ ~Generating' /\ lctx.goto # NoGoto)
        => lctx.goto \in requestedTransitions' ]_allVars

(***************************************************************************)
(* C23: a generator's setSpeed(value) on line i overrides the feed speed   *)
(* of line i in the compiled output: the stream of a program whose         *)
(* generator calls setSpeed(5000) on line 0 holds a SET_SPEED frame of     *)
(* 5000 directly before a raster line.                                     *)
(***************************************************************************)
SetsSpeedOnLine0(sec) ==
  sec.onLine.fn = "gen" /\ sec.onLine.speedAt = 0 /\ sec.maxLines > 0

IsLineFrame(f) == f.cmd \in { CMD.RAW_LINE, CMD.RAW_LINE_RLE }

C23_SetSpeedOverridesLine ==
  (pc = "compiled"
     /\ \E k \in 1..Len(emitted) :
          SetsSpeedOnLine0(sections[sectionIndex(sections, emitted[k])]))
  => LET fs == FramesOf(out) IN
     \E i \in 1..(Len(fs) - 1) :
        /\ fs[i].cmd = CMD.SET_SPEED
        /\ fs[i].payload = << 5000 % 256, 5000 \div 256 >>
        /\ IsLineFrame(fs[i + 1])

(***************************************************************************)
(* C24: once Printer.disconnect() has returned, the read loop has ended    *)
(* and released its reader, without the device having to send anything     *)
(* more, and it stays ended until the next connect; and no two read loops  *)
(* ever run on one connection.                                             *)
(***************************************************************************)
Disconnected == dpc = "done" /\ cpc = "none" /\ _writer = 0

C24_ReadLoopEndsAtDisconnect ==
  /\ Disconnected => loops = << >>
  /\ \A i, j \in 1..Len(loops) : i # j => loops[i] # loops[j]

(***************************************************************************)
(* C25: two successive compile() calls on a Game its caller does not       *)
(* change in between return the same bytes, also when the Game has dynamic *)
(* sections whose generators read or write the shared variable table.      *)
(***************************************************************************)
C25_CompileTwiceSameBytes ==
  (pc = "compiled" /\ prevOut # NoRet) => out = prevOut

(***************************************************************************)
(* C26: for every section compile() emits, the frames of the section hold  *)
(* a SET_MODE frame exactly when its feed mode is not auto, and a          *)
(* SET_SPEED frame, carrying the section's speed, exactly when its feed    *)
(* mode is auto; and these setup frames come before every content frame   *)
(* of the section.                                                         *)
(***************************************************************************)
\* the step in which the frames of a section are appended to the stream
EmitsSection ==
  /\ pc \in { "flow", "rest", "dyn", "dynBreak" }
  /\ Len(frames') > Len(frames)

EmittedSection == sections[sectionIndex(sections, emitted'[Len(emitted')])]
EmittedFrames ==
  LET fs == SubSeq(frames', Len(frames) + 1, Len(frames'))
  IN  [ i \in 1..Len(fs) |-> FramesOf(fs[i])[1] ]

IsSetupFrame(f) == f.cmd \in { CMD.SET_MODE, CMD.SET_SPEED }

SectionSetupFirst(sec, fs) ==
  /\ (\E i \in 1..Len(fs) : fs[i].cmd = CMD.SET_MODE) <=> sec.feedMode # "auto"
  /\ (\E i \in 1..Len(fs) : fs[i].cmd = CMD.SET_SPEED) <=> sec.feedMode = "auto"
  /\ \A i \in 1..Len(fs) :
        fs[i].cmd = CMD.SET_SPEED => fs[i].payload = << sec.speed % 256, sec.speed \div 256 >>
  /\ \A i, j \in 1..Len(fs) : (IsSetupFrame(fs[j]) /\ ~IsSetupFrame(fs[i])) => j < i

LabelAt(payload, i) == 256 * payload[i] + payload[i + 1]

\* the label ids a frame refers to
FrameTargets(f) ==
  CASE f.cmd \in { CMD.JUMP, CMD.JUMP_IF_BTN, CMD.JUMP_IF_VAR, CMD.JUMP_IF_FADER } ->
         { LabelAt(f.payload, Len(f.payload) - 1) }
    [] f.cmd = CMD.RANDOM_JUMP ->
         { LabelAt(f.payload, 2 * k) : k \in 1..f.payload[1] }
    [] OTHER -> { }

StreamLabels(fs) ==
  { LabelAt(fs[i].payload, 1) : i \in { j \in 1..Len(fs) : fs[j].cmd = CMD.LABEL } }

C27_JumpTargetsInStream ==
  pc = "compiled" =>
     LET fs == FramesOf(out) IN
     /\ \A i \in 1..Len(fs) : FrameTargets(fs[i]) \subseteq StreamLabels(fs)
     /\ LabelsDefinedBy(sections) \subseteq StreamLabels(fs)

(***************************************************************************)
(* C28: in a branching program every section of the table is emitted       *)
(* exactly once whatever the flow, also a flow that names a section twice  *)
(* or names ids the table does not hold; so no label block yields more     *)
(* than one LABEL frame.                                                   *)
(***************************************************************************)
TimesEmitted(id) == Cardinality({ k \in 1..Len(emitted) : emitted[k] = id })
LabelBlocks ==
  Cardinality(UNION { { << i, j >> : j \in { k \in 1..Len(sections[i].blocks) :
                                              sections[i].blocks[k].type = "label" } } :
                      i \in 1..Len(sections) })

C28_EachSectionOnce ==
  (pc = "compiled" /\ IsBranchingProgram) =>
     /\ \A i \in 1..Len(sections) : TimesEmitted(sections[i].id) = 1
     /\ CountCmd(FramesOf(out), CMD.LABEL) <= LabelBlocks

(***************************************************************************)
(* C29: under any interleaving of connect, disconnect, printModel and      *)
(* testPrint of printer.js, whenever isConnected() is true the current     *)
(* Printer holds an open writer, so a print that has passed the check      *)
(* never fails with the ConnectionError 'Not connected to printer'.        *)
(***************************************************************************)
C29_ConnectedMeansWriter ==
  /\ isConnected => writerOf[printer]
  /\ lastPrint.outcome # "ConnectionError"

(***************************************************************************)
(* C30: start() called while the printer is not connected throws a         *)
(* ConnectionError without compiling, writing or setting running;          *)
(* otherwise running is true from the call until start settles, and false  *)
(* afterwards in every outcome: successful send, compile error, write      *)
(* failure.                                                                *)
(***************************************************************************)
InStart ==
  /\ caller = "start"
  /\ pc \in { "flow", "rest", "dyn", "dynBreak", "trailer", "compiled", "sending", "failed" }
StartSettled == caller = "start" /\ pc \in { "sent", "thrown", "writeFailed" }
NothingDone == out = NoRet /\ written = << >> /\ emitted = << >> /\ genCalls = 0

C30_RunningWhileStarting ==
  /\ pc = "rejected" => (~running /\ NothingDone)
  /\ InStart => running
  /\ StartSettled => ~running

=============================================================================
